---- MODULE Spec2Model ----
(***************************************************************************)
(* Model of extract_pdf.py: the schedule extractor that turns the pages of *)
(* a PDF into activity records.  A string is a sequence of characters and *)
(* a character is its Unicode code point (0 .. 1114111); the character     *)
(* classes of str and re are the tables of Unicode 14, the version of the  *)
(* Python 3.11 the program runs on.  Vertical positions are integers and   *)
(* every ymid is stored doubled (y0 + y1), so that the midpoint            *)
(* (y0 + y1) / 2.0 of the source needs no fractions.                       *)
(***************************************************************************)
EXTENDS Integers, Sequences, FiniteSets, TLC

\* ---------------------------------------------------------------- bounds
MaxPages == 2
MaxTokLen == 3
\* the clock years explored, of all the years the clock can show
MinClockYear == 2026
MaxClockYear == 2027

\* ------------------------------------------------------------ characters
LF == 10
SPACE == 32
STAR == 42
HYPHEN == 45
UNDERSCORE == 95
NBSP == 160
ZWSP == 8203
BOM == 65279
CAPITAL_SIGMA == 931
FINAL_SIGMA == 962
SMALL_SIGMA == 963

\* a sequence written as a function, as a tuple
Tuple(f) == <<>> \o f
\* the element of a one-element set; {e(x) : x \in {v}} names the value v
\* once where e uses it several times
The(S) == CHOOSE r \in S : TRUE

\* c lies in one of the ranges <<lo, hi>> of R
InRanges(c, R) == \E r \in R : r[1] <= c /\ c <= r[2]
\* c is mapped by one of the runs <<lo, hi, step, delta>> of R
InRun(c, r) == r[1] <= c /\ c <= r[2] /\ (c - r[1]) % r[3] = 0

\* the characters str.isspace() and \s accept
SpaceChars == {
    9, 10, 11, 12, 13, 28, 29, 30, 31, 32, 133, 160, 5760, 8192, 8193, 8194,
    8195, 8196, 8197, 8198, 8199, 8200, 8201, 8202, 8232, 8233, 8239, 8287,
    12288 }
\* the digit zero of every script: \d accepts z .. z + 9 for each z
DigitZeros == {
    48, 1632, 1776, 1984, 2406, 2534, 2662, 2790, 2918, 3046, 3174, 3302,
    3430, 3558, 3664, 3792, 3872, 4160, 4240, 6112, 6160, 6470, 6608, 6784,
    6800, 6992, 7088, 7232, 7248, 42528, 43216, 43264, 43472, 43504, 43600,
    44016, 65296, 66720, 68912, 69734, 69872, 69942, 70096, 70384, 70736,
    70864, 71248, 71360, 71472, 71904, 72016, 72784, 73040, 73120, 92768,
    92864, 93008, 120782, 120792, 120802, 120812, 120822, 123200, 123632,
    125264, 130032 }
\* the characters above U+007F that \w accepts
WordRanges == {
    <<170, 170>>, <<178, 179>>, <<181, 181>>, <<185, 186>>, <<188, 190>>,
    <<192, 214>>, <<216, 246>>, <<248, 705>>, <<710, 721>>, <<736, 740>>,
    <<748, 748>>, <<750, 750>>, <<880, 884>>, <<886, 887>>, <<890, 893>>,
    <<895, 895>>, <<902, 902>>, <<904, 906>>, <<908, 908>>, <<910, 929>>,
    <<931, 1013>>, <<1015, 1153>>, <<1162, 1327>>, <<1329, 1366>>,
    <<1369, 1369>>, <<1376, 1416>>, <<1488, 1514>>, <<1519, 1522>>,
    <<1568, 1610>>, <<1632, 1641>>, <<1646, 1647>>, <<1649, 1747>>,
    <<1749, 1749>>, <<1765, 1766>>, <<1774, 1788>>, <<1791, 1791>>,
    <<1808, 1808>>, <<1810, 1839>>, <<1869, 1957>>, <<1969, 1969>>,
    <<1984, 2026>>, <<2036, 2037>>, <<2042, 2042>>, <<2048, 2069>>,
    <<2074, 2074>>, <<2084, 2084>>, <<2088, 2088>>, <<2112, 2136>>,
    <<2144, 2154>>, <<2160, 2183>>, <<2185, 2190>>, <<2208, 2249>>,
    <<2308, 2361>>, <<2365, 2365>>, <<2384, 2384>>, <<2392, 2401>>,
    <<2406, 2415>>, <<2417, 2432>>, <<2437, 2444>>, <<2447, 2448>>,
    <<2451, 2472>>, <<2474, 2480>>, <<2482, 2482>>, <<2486, 2489>>,
    <<2493, 2493>>, <<2510, 2510>>, <<2524, 2525>>, <<2527, 2529>>,
    <<2534, 2545>>, <<2548, 2553>>, <<2556, 2556>>, <<2565, 2570>>,
    <<2575, 2576>>, <<2579, 2600>>, <<2602, 2608>>, <<2610, 2611>>,
    <<2613, 2614>>, <<2616, 2617>>, <<2649, 2652>>, <<2654, 2654>>,
    <<2662, 2671>>, <<2674, 2676>>, <<2693, 2701>>, <<2703, 2705>>,
    <<2707, 2728>>, <<2730, 2736>>, <<2738, 2739>>, <<2741, 2745>>,
    <<2749, 2749>>, <<2768, 2768>>, <<2784, 2785>>, <<2790, 2799>>,
    <<2809, 2809>>, <<2821, 2828>>, <<2831, 2832>>, <<2835, 2856>>,
    <<2858, 2864>>, <<2866, 2867>>, <<2869, 2873>>, <<2877, 2877>>,
    <<2908, 2909>>, <<2911, 2913>>, <<2918, 2927>>, <<2929, 2935>>,
    <<2947, 2947>>, <<2949, 2954>>, <<2958, 2960>>, <<2962, 2965>>,
    <<2969, 2970>>, <<2972, 2972>>, <<2974, 2975>>, <<2979, 2980>>,
    <<2984, 2986>>, <<2990, 3001>>, <<3024, 3024>>, <<3046, 3058>>,
    <<3077, 3084>>, <<3086, 3088>>, <<3090, 3112>>, <<3114, 3129>>,
    <<3133, 3133>>, <<3160, 3162>>, <<3165, 3165>>, <<3168, 3169>>,
    <<3174, 3183>>, <<3192, 3198>>, <<3200, 3200>>, <<3205, 3212>>,
    <<3214, 3216>>, <<3218, 3240>>, <<3242, 3251>>, <<3253, 3257>>,
    <<3261, 3261>>, <<3293, 3294>>, <<3296, 3297>>, <<3302, 3311>>,
    <<3313, 3314>>, <<3332, 3340>>, <<3342, 3344>>, <<3346, 3386>>,
    <<3389, 3389>>, <<3406, 3406>>, <<3412, 3414>>, <<3416, 3425>>,
    <<3430, 3448>>, <<3450, 3455>>, <<3461, 3478>>, <<3482, 3505>>,
    <<3507, 3515>>, <<3517, 3517>>, <<3520, 3526>>, <<3558, 3567>>,
    <<3585, 3632>>, <<3634, 3635>>, <<3648, 3654>>, <<3664, 3673>>,
    <<3713, 3714>>, <<3716, 3716>>, <<3718, 3722>>, <<3724, 3747>>,
    <<3749, 3749>>, <<3751, 3760>>, <<3762, 3763>>, <<3773, 3773>>,
    <<3776, 3780>>, <<3782, 3782>>, <<3792, 3801>>, <<3804, 3807>>,
    <<3840, 3840>>, <<3872, 3891>>, <<3904, 3911>>, <<3913, 3948>>,
    <<3976, 3980>>, <<4096, 4138>>, <<4159, 4169>>, <<4176, 4181>>,
    <<4186, 4189>>, <<4193, 4193>>, <<4197, 4198>>, <<4206, 4208>>,
    <<4213, 4225>>, <<4238, 4238>>, <<4240, 4249>>, <<4256, 4293>>,
    <<4295, 4295>>, <<4301, 4301>>, <<4304, 4346>>, <<4348, 4680>>,
    <<4682, 4685>>, <<4688, 4694>>, <<4696, 4696>>, <<4698, 4701>>,
    <<4704, 4744>>, <<4746, 4749>>, <<4752, 4784>>, <<4786, 4789>>,
    <<4792, 4798>>, <<4800, 4800>>, <<4802, 4805>>, <<4808, 4822>>,
    <<4824, 4880>>, <<4882, 4885>>, <<4888, 4954>>, <<4969, 4988>>,
    <<4992, 5007>>, <<5024, 5109>>, <<5112, 5117>>, <<5121, 5740>>,
    <<5743, 5759>>, <<5761, 5786>>, <<5792, 5866>>, <<5870, 5880>>,
    <<5888, 5905>>, <<5919, 5937>>, <<5952, 5969>>, <<5984, 5996>>,
    <<5998, 6000>>, <<6016, 6067>>, <<6103, 6103>>, <<6108, 6108>>,
    <<6112, 6121>>, <<6128, 6137>>, <<6160, 6169>>, <<6176, 6264>>,
    <<6272, 6276>>, <<6279, 6312>>, <<6314, 6314>>, <<6320, 6389>>,
    <<6400, 6430>>, <<6470, 6509>>, <<6512, 6516>>, <<6528, 6571>>,
    <<6576, 6601>>, <<6608, 6618>>, <<6656, 6678>>, <<6688, 6740>>,
    <<6784, 6793>>, <<6800, 6809>>, <<6823, 6823>>, <<6917, 6963>>,
    <<6981, 6988>>, <<6992, 7001>>, <<7043, 7072>>, <<7086, 7141>>,
    <<7168, 7203>>, <<7232, 7241>>, <<7245, 7293>>, <<7296, 7304>>,
    <<7312, 7354>>, <<7357, 7359>>, <<7401, 7404>>, <<7406, 7411>>,
    <<7413, 7414>>, <<7418, 7418>>, <<7424, 7615>>, <<7680, 7957>>,
    <<7960, 7965>>, <<7968, 8005>>, <<8008, 8013>>, <<8016, 8023>>,
    <<8025, 8025>>, <<8027, 8027>>, <<8029, 8029>>, <<8031, 8061>>,
    <<8064, 8116>>, <<8118, 8124>>, <<8126, 8126>>, <<8130, 8132>>,
    <<8134, 8140>>, <<8144, 8147>>, <<8150, 8155>>, <<8160, 8172>>,
    <<8178, 8180>>, <<8182, 8188>>, <<8304, 8305>>, <<8308, 8313>>,
    <<8319, 8329>>, <<8336, 8348>>, <<8450, 8450>>, <<8455, 8455>>,
    <<8458, 8467>>, <<8469, 8469>>, <<8473, 8477>>, <<8484, 8484>>,
    <<8486, 8486>>, <<8488, 8488>>, <<8490, 8493>>, <<8495, 8505>>,
    <<8508, 8511>>, <<8517, 8521>>, <<8526, 8526>>, <<8528, 8585>>,
    <<9312, 9371>>, <<9450, 9471>>, <<10102, 10131>>, <<11264, 11492>>,
    <<11499, 11502>>, <<11506, 11507>>, <<11517, 11517>>, <<11520, 11557>>,
    <<11559, 11559>>, <<11565, 11565>>, <<11568, 11623>>, <<11631, 11631>>,
    <<11648, 11670>>, <<11680, 11686>>, <<11688, 11694>>, <<11696, 11702>>,
    <<11704, 11710>>, <<11712, 11718>>, <<11720, 11726>>, <<11728, 11734>>,
    <<11736, 11742>>, <<11823, 11823>>, <<12293, 12295>>, <<12321, 12329>>,
    <<12337, 12341>>, <<12344, 12348>>, <<12353, 12438>>, <<12445, 12447>>,
    <<12449, 12538>>, <<12540, 12543>>, <<12549, 12591>>, <<12593, 12686>>,
    <<12690, 12693>>, <<12704, 12735>>, <<12784, 12799>>, <<12832, 12841>>,
    <<12872, 12879>>, <<12881, 12895>>, <<12928, 12937>>, <<12977, 12991>>,
    <<13312, 19903>>, <<19968, 42124>>, <<42192, 42237>>, <<42240, 42508>>,
    <<42512, 42539>>, <<42560, 42606>>, <<42623, 42653>>, <<42656, 42735>>,
    <<42775, 42783>>, <<42786, 42888>>, <<42891, 42954>>, <<42960, 42961>>,
    <<42963, 42963>>, <<42965, 42969>>, <<42994, 43009>>, <<43011, 43013>>,
    <<43015, 43018>>, <<43020, 43042>>, <<43056, 43061>>, <<43072, 43123>>,
    <<43138, 43187>>, <<43216, 43225>>, <<43250, 43255>>, <<43259, 43259>>,
    <<43261, 43262>>, <<43264, 43301>>, <<43312, 43334>>, <<43360, 43388>>,
    <<43396, 43442>>, <<43471, 43481>>, <<43488, 43492>>, <<43494, 43518>>,
    <<43520, 43560>>, <<43584, 43586>>, <<43588, 43595>>, <<43600, 43609>>,
    <<43616, 43638>>, <<43642, 43642>>, <<43646, 43695>>, <<43697, 43697>>,
    <<43701, 43702>>, <<43705, 43709>>, <<43712, 43712>>, <<43714, 43714>>,
    <<43739, 43741>>, <<43744, 43754>>, <<43762, 43764>>, <<43777, 43782>>,
    <<43785, 43790>>, <<43793, 43798>>, <<43808, 43814>>, <<43816, 43822>>,
    <<43824, 43866>>, <<43868, 43881>>, <<43888, 44002>>, <<44016, 44025>>,
    <<44032, 55203>>, <<55216, 55238>>, <<55243, 55291>>, <<63744, 64109>>,
    <<64112, 64217>>, <<64256, 64262>>, <<64275, 64279>>, <<64285, 64285>>,
    <<64287, 64296>>, <<64298, 64310>>, <<64312, 64316>>, <<64318, 64318>>,
    <<64320, 64321>>, <<64323, 64324>>, <<64326, 64433>>, <<64467, 64829>>,
    <<64848, 64911>>, <<64914, 64967>>, <<65008, 65019>>, <<65136, 65140>>,
    <<65142, 65276>>, <<65296, 65305>>, <<65313, 65338>>, <<65345, 65370>>,
    <<65382, 65470>>, <<65474, 65479>>, <<65482, 65487>>, <<65490, 65495>>,
    <<65498, 65500>>, <<65536, 65547>>, <<65549, 65574>>, <<65576, 65594>>,
    <<65596, 65597>>, <<65599, 65613>>, <<65616, 65629>>, <<65664, 65786>>,
    <<65799, 65843>>, <<65856, 65912>>, <<65930, 65931>>, <<66176, 66204>>,
    <<66208, 66256>>, <<66273, 66299>>, <<66304, 66339>>, <<66349, 66378>>,
    <<66384, 66421>>, <<66432, 66461>>, <<66464, 66499>>, <<66504, 66511>>,
    <<66513, 66517>>, <<66560, 66717>>, <<66720, 66729>>, <<66736, 66771>>,
    <<66776, 66811>>, <<66816, 66855>>, <<66864, 66915>>, <<66928, 66938>>,
    <<66940, 66954>>, <<66956, 66962>>, <<66964, 66965>>, <<66967, 66977>>,
    <<66979, 66993>>, <<66995, 67001>>, <<67003, 67004>>, <<67072, 67382>>,
    <<67392, 67413>>, <<67424, 67431>>, <<67456, 67461>>, <<67463, 67504>>,
    <<67506, 67514>>, <<67584, 67589>>, <<67592, 67592>>, <<67594, 67637>>,
    <<67639, 67640>>, <<67644, 67644>>, <<67647, 67669>>, <<67672, 67702>>,
    <<67705, 67742>>, <<67751, 67759>>, <<67808, 67826>>, <<67828, 67829>>,
    <<67835, 67867>>, <<67872, 67897>>, <<67968, 68023>>, <<68028, 68047>>,
    <<68050, 68096>>, <<68112, 68115>>, <<68117, 68119>>, <<68121, 68149>>,
    <<68160, 68168>>, <<68192, 68222>>, <<68224, 68255>>, <<68288, 68295>>,
    <<68297, 68324>>, <<68331, 68335>>, <<68352, 68405>>, <<68416, 68437>>,
    <<68440, 68466>>, <<68472, 68497>>, <<68521, 68527>>, <<68608, 68680>>,
    <<68736, 68786>>, <<68800, 68850>>, <<68858, 68899>>, <<68912, 68921>>,
    <<69216, 69246>>, <<69248, 69289>>, <<69296, 69297>>, <<69376, 69415>>,
    <<69424, 69445>>, <<69457, 69460>>, <<69488, 69505>>, <<69552, 69579>>,
    <<69600, 69622>>, <<69635, 69687>>, <<69714, 69743>>, <<69745, 69746>>,
    <<69749, 69749>>, <<69763, 69807>>, <<69840, 69864>>, <<69872, 69881>>,
    <<69891, 69926>>, <<69942, 69951>>, <<69956, 69956>>, <<69959, 69959>>,
    <<69968, 70002>>, <<70006, 70006>>, <<70019, 70066>>, <<70081, 70084>>,
    <<70096, 70106>>, <<70108, 70108>>, <<70113, 70132>>, <<70144, 70161>>,
    <<70163, 70187>>, <<70272, 70278>>, <<70280, 70280>>, <<70282, 70285>>,
    <<70287, 70301>>, <<70303, 70312>>, <<70320, 70366>>, <<70384, 70393>>,
    <<70405, 70412>>, <<70415, 70416>>, <<70419, 70440>>, <<70442, 70448>>,
    <<70450, 70451>>, <<70453, 70457>>, <<70461, 70461>>, <<70480, 70480>>,
    <<70493, 70497>>, <<70656, 70708>>, <<70727, 70730>>, <<70736, 70745>>,
    <<70751, 70753>>, <<70784, 70831>>, <<70852, 70853>>, <<70855, 70855>>,
    <<70864, 70873>>, <<71040, 71086>>, <<71128, 71131>>, <<71168, 71215>>,
    <<71236, 71236>>, <<71248, 71257>>, <<71296, 71338>>, <<71352, 71352>>,
    <<71360, 71369>>, <<71424, 71450>>, <<71472, 71483>>, <<71488, 71494>>,
    <<71680, 71723>>, <<71840, 71922>>, <<71935, 71942>>, <<71945, 71945>>,
    <<71948, 71955>>, <<71957, 71958>>, <<71960, 71983>>, <<71999, 71999>>,
    <<72001, 72001>>, <<72016, 72025>>, <<72096, 72103>>, <<72106, 72144>>,
    <<72161, 72161>>, <<72163, 72163>>, <<72192, 72192>>, <<72203, 72242>>,
    <<72250, 72250>>, <<72272, 72272>>, <<72284, 72329>>, <<72349, 72349>>,
    <<72368, 72440>>, <<72704, 72712>>, <<72714, 72750>>, <<72768, 72768>>,
    <<72784, 72812>>, <<72818, 72847>>, <<72960, 72966>>, <<72968, 72969>>,
    <<72971, 73008>>, <<73030, 73030>>, <<73040, 73049>>, <<73056, 73061>>,
    <<73063, 73064>>, <<73066, 73097>>, <<73112, 73112>>, <<73120, 73129>>,
    <<73440, 73458>>, <<73648, 73648>>, <<73664, 73684>>, <<73728, 74649>>,
    <<74752, 74862>>, <<74880, 75075>>, <<77712, 77808>>, <<77824, 78894>>,
    <<82944, 83526>>, <<92160, 92728>>, <<92736, 92766>>, <<92768, 92777>>,
    <<92784, 92862>>, <<92864, 92873>>, <<92880, 92909>>, <<92928, 92975>>,
    <<92992, 92995>>, <<93008, 93017>>, <<93019, 93025>>, <<93027, 93047>>,
    <<93053, 93071>>, <<93760, 93846>>, <<93952, 94026>>, <<94032, 94032>>,
    <<94099, 94111>>, <<94176, 94177>>, <<94179, 94179>>, <<94208, 100343>>,
    <<100352, 101589>>, <<101632, 101640>>, <<110576, 110579>>,
    <<110581, 110587>>, <<110589, 110590>>, <<110592, 110882>>,
    <<110928, 110930>>, <<110948, 110951>>, <<110960, 111355>>,
    <<113664, 113770>>, <<113776, 113788>>, <<113792, 113800>>,
    <<113808, 113817>>, <<119520, 119539>>, <<119648, 119672>>,
    <<119808, 119892>>, <<119894, 119964>>, <<119966, 119967>>,
    <<119970, 119970>>, <<119973, 119974>>, <<119977, 119980>>,
    <<119982, 119993>>, <<119995, 119995>>, <<119997, 120003>>,
    <<120005, 120069>>, <<120071, 120074>>, <<120077, 120084>>,
    <<120086, 120092>>, <<120094, 120121>>, <<120123, 120126>>,
    <<120128, 120132>>, <<120134, 120134>>, <<120138, 120144>>,
    <<120146, 120485>>, <<120488, 120512>>, <<120514, 120538>>,
    <<120540, 120570>>, <<120572, 120596>>, <<120598, 120628>>,
    <<120630, 120654>>, <<120656, 120686>>, <<120688, 120712>>,
    <<120714, 120744>>, <<120746, 120770>>, <<120772, 120779>>,
    <<120782, 120831>>, <<122624, 122654>>, <<123136, 123180>>,
    <<123191, 123197>>, <<123200, 123209>>, <<123214, 123214>>,
    <<123536, 123565>>, <<123584, 123627>>, <<123632, 123641>>,
    <<124896, 124902>>, <<124904, 124907>>, <<124909, 124910>>,
    <<124912, 124926>>, <<124928, 125124>>, <<125127, 125135>>,
    <<125184, 125251>>, <<125259, 125259>>, <<125264, 125273>>,
    <<126065, 126123>>, <<126125, 126127>>, <<126129, 126132>>,
    <<126209, 126253>>, <<126255, 126269>>, <<126464, 126467>>,
    <<126469, 126495>>, <<126497, 126498>>, <<126500, 126500>>,
    <<126503, 126503>>, <<126505, 126514>>, <<126516, 126519>>,
    <<126521, 126521>>, <<126523, 126523>>, <<126530, 126530>>,
    <<126535, 126535>>, <<126537, 126537>>, <<126539, 126539>>,
    <<126541, 126543>>, <<126545, 126546>>, <<126548, 126548>>,
    <<126551, 126551>>, <<126553, 126553>>, <<126555, 126555>>,
    <<126557, 126557>>, <<126559, 126559>>, <<126561, 126562>>,
    <<126564, 126564>>, <<126567, 126570>>, <<126572, 126578>>,
    <<126580, 126583>>, <<126585, 126588>>, <<126590, 126590>>,
    <<126592, 126601>>, <<126603, 126619>>, <<126625, 126627>>,
    <<126629, 126633>>, <<126635, 126651>>, <<127232, 127244>>,
    <<130032, 130041>>, <<131072, 173791>>, <<173824, 177976>>,
    <<177984, 178205>>, <<178208, 183969>>, <<183984, 191456>>,
    <<194560, 195101>>, <<196608, 201546>> }
\* the characters above U+007F that [A-Z] accepts under re.IGNORECASE
IgnoreCaseLetters == {
    304, 305, 383, 8490 }
\* the cased characters that are not case-ignorable, and the case-ignorable
\* characters: str.lower() reads them around a capital sigma
CasedRanges == {
    <<65, 90>>, <<97, 122>>, <<170, 170>>, <<181, 181>>, <<186, 186>>,
    <<192, 214>>, <<216, 246>>, <<248, 442>>, <<444, 447>>, <<452, 659>>,
    <<661, 687>>, <<880, 883>>, <<886, 887>>, <<891, 893>>, <<895, 895>>,
    <<902, 902>>, <<904, 906>>, <<908, 908>>, <<910, 929>>, <<931, 1013>>,
    <<1015, 1153>>, <<1162, 1327>>, <<1329, 1366>>, <<1376, 1416>>,
    <<4256, 4293>>, <<4295, 4295>>, <<4301, 4301>>, <<4304, 4346>>,
    <<4349, 4351>>, <<5024, 5109>>, <<5112, 5117>>, <<7296, 7304>>,
    <<7312, 7354>>, <<7357, 7359>>, <<7424, 7467>>, <<7531, 7543>>,
    <<7545, 7578>>, <<7680, 7957>>, <<7960, 7965>>, <<7968, 8005>>,
    <<8008, 8013>>, <<8016, 8023>>, <<8025, 8025>>, <<8027, 8027>>,
    <<8029, 8029>>, <<8031, 8061>>, <<8064, 8116>>, <<8118, 8124>>,
    <<8126, 8126>>, <<8130, 8132>>, <<8134, 8140>>, <<8144, 8147>>,
    <<8150, 8155>>, <<8160, 8172>>, <<8178, 8180>>, <<8182, 8188>>,
    <<8450, 8450>>, <<8455, 8455>>, <<8458, 8467>>, <<8469, 8469>>,
    <<8473, 8477>>, <<8484, 8484>>, <<8486, 8486>>, <<8488, 8488>>,
    <<8490, 8493>>, <<8495, 8500>>, <<8505, 8505>>, <<8508, 8511>>,
    <<8517, 8521>>, <<8526, 8526>>, <<8544, 8575>>, <<8579, 8580>>,
    <<9398, 9449>>, <<11264, 11387>>, <<11390, 11492>>, <<11499, 11502>>,
    <<11506, 11507>>, <<11520, 11557>>, <<11559, 11559>>, <<11565, 11565>>,
    <<42560, 42605>>, <<42624, 42651>>, <<42786, 42863>>, <<42865, 42887>>,
    <<42891, 42894>>, <<42896, 42954>>, <<42960, 42961>>, <<42963, 42963>>,
    <<42965, 42969>>, <<42997, 42998>>, <<43002, 43002>>, <<43824, 43866>>,
    <<43872, 43880>>, <<43888, 43967>>, <<64256, 64262>>, <<64275, 64279>>,
    <<65313, 65338>>, <<65345, 65370>>, <<66560, 66639>>, <<66736, 66771>>,
    <<66776, 66811>>, <<66928, 66938>>, <<66940, 66954>>, <<66956, 66962>>,
    <<66964, 66965>>, <<66967, 66977>>, <<66979, 66993>>, <<66995, 67001>>,
    <<67003, 67004>>, <<68736, 68786>>, <<68800, 68850>>, <<71840, 71903>>,
    <<93760, 93823>>, <<119808, 119892>>, <<119894, 119964>>,
    <<119966, 119967>>, <<119970, 119970>>, <<119973, 119974>>,
    <<119977, 119980>>, <<119982, 119993>>, <<119995, 119995>>,
    <<119997, 120003>>, <<120005, 120069>>, <<120071, 120074>>,
    <<120077, 120084>>, <<120086, 120092>>, <<120094, 120121>>,
    <<120123, 120126>>, <<120128, 120132>>, <<120134, 120134>>,
    <<120138, 120144>>, <<120146, 120485>>, <<120488, 120512>>,
    <<120514, 120538>>, <<120540, 120570>>, <<120572, 120596>>,
    <<120598, 120628>>, <<120630, 120654>>, <<120656, 120686>>,
    <<120688, 120712>>, <<120714, 120744>>, <<120746, 120770>>,
    <<120772, 120779>>, <<122624, 122633>>, <<122635, 122654>>,
    <<125184, 125251>>, <<127280, 127305>>, <<127312, 127337>>,
    <<127344, 127369>> }
IgnorableRanges == {
    <<39, 39>>, <<46, 46>>, <<58, 58>>, <<94, 94>>, <<96, 96>>,
    <<168, 168>>, <<173, 173>>, <<175, 175>>, <<180, 180>>, <<183, 184>>,
    <<688, 879>>, <<884, 885>>, <<890, 890>>, <<900, 901>>, <<903, 903>>,
    <<1155, 1161>>, <<1369, 1369>>, <<1375, 1375>>, <<1425, 1469>>,
    <<1471, 1471>>, <<1473, 1474>>, <<1476, 1477>>, <<1479, 1479>>,
    <<1524, 1524>>, <<1536, 1541>>, <<1552, 1562>>, <<1564, 1564>>,
    <<1600, 1600>>, <<1611, 1631>>, <<1648, 1648>>, <<1750, 1757>>,
    <<1759, 1768>>, <<1770, 1773>>, <<1807, 1807>>, <<1809, 1809>>,
    <<1840, 1866>>, <<1958, 1968>>, <<2027, 2037>>, <<2042, 2042>>,
    <<2045, 2045>>, <<2070, 2093>>, <<2137, 2139>>, <<2184, 2184>>,
    <<2192, 2193>>, <<2200, 2207>>, <<2249, 2306>>, <<2362, 2362>>,
    <<2364, 2364>>, <<2369, 2376>>, <<2381, 2381>>, <<2385, 2391>>,
    <<2402, 2403>>, <<2417, 2417>>, <<2433, 2433>>, <<2492, 2492>>,
    <<2497, 2500>>, <<2509, 2509>>, <<2530, 2531>>, <<2558, 2558>>,
    <<2561, 2562>>, <<2620, 2620>>, <<2625, 2626>>, <<2631, 2632>>,
    <<2635, 2637>>, <<2641, 2641>>, <<2672, 2673>>, <<2677, 2677>>,
    <<2689, 2690>>, <<2748, 2748>>, <<2753, 2757>>, <<2759, 2760>>,
    <<2765, 2765>>, <<2786, 2787>>, <<2810, 2815>>, <<2817, 2817>>,
    <<2876, 2876>>, <<2879, 2879>>, <<2881, 2884>>, <<2893, 2893>>,
    <<2901, 2902>>, <<2914, 2915>>, <<2946, 2946>>, <<3008, 3008>>,
    <<3021, 3021>>, <<3072, 3072>>, <<3076, 3076>>, <<3132, 3132>>,
    <<3134, 3136>>, <<3142, 3144>>, <<3146, 3149>>, <<3157, 3158>>,
    <<3170, 3171>>, <<3201, 3201>>, <<3260, 3260>>, <<3263, 3263>>,
    <<3270, 3270>>, <<3276, 3277>>, <<3298, 3299>>, <<3328, 3329>>,
    <<3387, 3388>>, <<3393, 3396>>, <<3405, 3405>>, <<3426, 3427>>,
    <<3457, 3457>>, <<3530, 3530>>, <<3538, 3540>>, <<3542, 3542>>,
    <<3633, 3633>>, <<3636, 3642>>, <<3654, 3662>>, <<3761, 3761>>,
    <<3764, 3772>>, <<3782, 3782>>, <<3784, 3789>>, <<3864, 3865>>,
    <<3893, 3893>>, <<3895, 3895>>, <<3897, 3897>>, <<3953, 3966>>,
    <<3968, 3972>>, <<3974, 3975>>, <<3981, 3991>>, <<3993, 4028>>,
    <<4038, 4038>>, <<4141, 4144>>, <<4146, 4151>>, <<4153, 4154>>,
    <<4157, 4158>>, <<4184, 4185>>, <<4190, 4192>>, <<4209, 4212>>,
    <<4226, 4226>>, <<4229, 4230>>, <<4237, 4237>>, <<4253, 4253>>,
    <<4348, 4348>>, <<4957, 4959>>, <<5906, 5908>>, <<5938, 5939>>,
    <<5970, 5971>>, <<6002, 6003>>, <<6068, 6069>>, <<6071, 6077>>,
    <<6086, 6086>>, <<6089, 6099>>, <<6103, 6103>>, <<6109, 6109>>,
    <<6155, 6159>>, <<6211, 6211>>, <<6277, 6278>>, <<6313, 6313>>,
    <<6432, 6434>>, <<6439, 6440>>, <<6450, 6450>>, <<6457, 6459>>,
    <<6679, 6680>>, <<6683, 6683>>, <<6742, 6742>>, <<6744, 6750>>,
    <<6752, 6752>>, <<6754, 6754>>, <<6757, 6764>>, <<6771, 6780>>,
    <<6783, 6783>>, <<6823, 6823>>, <<6832, 6862>>, <<6912, 6915>>,
    <<6964, 6964>>, <<6966, 6970>>, <<6972, 6972>>, <<6978, 6978>>,
    <<7019, 7027>>, <<7040, 7041>>, <<7074, 7077>>, <<7080, 7081>>,
    <<7083, 7085>>, <<7142, 7142>>, <<7144, 7145>>, <<7149, 7149>>,
    <<7151, 7153>>, <<7212, 7219>>, <<7222, 7223>>, <<7288, 7293>>,
    <<7376, 7378>>, <<7380, 7392>>, <<7394, 7400>>, <<7405, 7405>>,
    <<7412, 7412>>, <<7416, 7417>>, <<7468, 7530>>, <<7544, 7544>>,
    <<7579, 7679>>, <<8125, 8125>>, <<8127, 8129>>, <<8141, 8143>>,
    <<8157, 8159>>, <<8173, 8175>>, <<8189, 8190>>, <<8203, 8207>>,
    <<8216, 8217>>, <<8228, 8228>>, <<8231, 8231>>, <<8234, 8238>>,
    <<8288, 8292>>, <<8294, 8303>>, <<8305, 8305>>, <<8319, 8319>>,
    <<8336, 8348>>, <<8400, 8432>>, <<11388, 11389>>, <<11503, 11505>>,
    <<11631, 11631>>, <<11647, 11647>>, <<11744, 11775>>, <<11823, 11823>>,
    <<12293, 12293>>, <<12330, 12333>>, <<12337, 12341>>, <<12347, 12347>>,
    <<12441, 12446>>, <<12540, 12542>>, <<40981, 40981>>, <<42232, 42237>>,
    <<42508, 42508>>, <<42607, 42610>>, <<42612, 42621>>, <<42623, 42623>>,
    <<42652, 42655>>, <<42736, 42737>>, <<42752, 42785>>, <<42864, 42864>>,
    <<42888, 42890>>, <<42994, 42996>>, <<43000, 43001>>, <<43010, 43010>>,
    <<43014, 43014>>, <<43019, 43019>>, <<43045, 43046>>, <<43052, 43052>>,
    <<43204, 43205>>, <<43232, 43249>>, <<43263, 43263>>, <<43302, 43309>>,
    <<43335, 43345>>, <<43392, 43394>>, <<43443, 43443>>, <<43446, 43449>>,
    <<43452, 43453>>, <<43471, 43471>>, <<43493, 43494>>, <<43561, 43566>>,
    <<43569, 43570>>, <<43573, 43574>>, <<43587, 43587>>, <<43596, 43596>>,
    <<43632, 43632>>, <<43644, 43644>>, <<43696, 43696>>, <<43698, 43700>>,
    <<43703, 43704>>, <<43710, 43711>>, <<43713, 43713>>, <<43741, 43741>>,
    <<43756, 43757>>, <<43763, 43764>>, <<43766, 43766>>, <<43867, 43871>>,
    <<43881, 43883>>, <<44005, 44005>>, <<44008, 44008>>, <<44013, 44013>>,
    <<64286, 64286>>, <<64434, 64450>>, <<65024, 65039>>, <<65043, 65043>>,
    <<65056, 65071>>, <<65106, 65106>>, <<65109, 65109>>, <<65279, 65279>>,
    <<65287, 65287>>, <<65294, 65294>>, <<65306, 65306>>, <<65342, 65342>>,
    <<65344, 65344>>, <<65392, 65392>>, <<65438, 65439>>, <<65507, 65507>>,
    <<65529, 65531>>, <<66045, 66045>>, <<66272, 66272>>, <<66422, 66426>>,
    <<67456, 67461>>, <<67463, 67504>>, <<67506, 67514>>, <<68097, 68099>>,
    <<68101, 68102>>, <<68108, 68111>>, <<68152, 68154>>, <<68159, 68159>>,
    <<68325, 68326>>, <<68900, 68903>>, <<69291, 69292>>, <<69446, 69456>>,
    <<69506, 69509>>, <<69633, 69633>>, <<69688, 69702>>, <<69744, 69744>>,
    <<69747, 69748>>, <<69759, 69761>>, <<69811, 69814>>, <<69817, 69818>>,
    <<69821, 69821>>, <<69826, 69826>>, <<69837, 69837>>, <<69888, 69890>>,
    <<69927, 69931>>, <<69933, 69940>>, <<70003, 70003>>, <<70016, 70017>>,
    <<70070, 70078>>, <<70089, 70092>>, <<70095, 70095>>, <<70191, 70193>>,
    <<70196, 70196>>, <<70198, 70199>>, <<70206, 70206>>, <<70367, 70367>>,
    <<70371, 70378>>, <<70400, 70401>>, <<70459, 70460>>, <<70464, 70464>>,
    <<70502, 70508>>, <<70512, 70516>>, <<70712, 70719>>, <<70722, 70724>>,
    <<70726, 70726>>, <<70750, 70750>>, <<70835, 70840>>, <<70842, 70842>>,
    <<70847, 70848>>, <<70850, 70851>>, <<71090, 71093>>, <<71100, 71101>>,
    <<71103, 71104>>, <<71132, 71133>>, <<71219, 71226>>, <<71229, 71229>>,
    <<71231, 71232>>, <<71339, 71339>>, <<71341, 71341>>, <<71344, 71349>>,
    <<71351, 71351>>, <<71453, 71455>>, <<71458, 71461>>, <<71463, 71467>>,
    <<71727, 71735>>, <<71737, 71738>>, <<71995, 71996>>, <<71998, 71998>>,
    <<72003, 72003>>, <<72148, 72151>>, <<72154, 72155>>, <<72160, 72160>>,
    <<72193, 72202>>, <<72243, 72248>>, <<72251, 72254>>, <<72263, 72263>>,
    <<72273, 72278>>, <<72281, 72283>>, <<72330, 72342>>, <<72344, 72345>>,
    <<72752, 72758>>, <<72760, 72765>>, <<72767, 72767>>, <<72850, 72871>>,
    <<72874, 72880>>, <<72882, 72883>>, <<72885, 72886>>, <<73009, 73014>>,
    <<73018, 73018>>, <<73020, 73021>>, <<73023, 73029>>, <<73031, 73031>>,
    <<73104, 73105>>, <<73109, 73109>>, <<73111, 73111>>, <<73459, 73460>>,
    <<78896, 78904>>, <<92912, 92916>>, <<92976, 92982>>, <<92992, 92995>>,
    <<94031, 94031>>, <<94095, 94111>>, <<94176, 94177>>, <<94179, 94180>>,
    <<110576, 110579>>, <<110581, 110587>>, <<110589, 110590>>,
    <<113821, 113822>>, <<113824, 113827>>, <<118528, 118573>>,
    <<118576, 118598>>, <<119143, 119145>>, <<119155, 119170>>,
    <<119173, 119179>>, <<119210, 119213>>, <<119362, 119364>>,
    <<121344, 121398>>, <<121403, 121452>>, <<121461, 121461>>,
    <<121476, 121476>>, <<121499, 121503>>, <<121505, 121519>>,
    <<122880, 122886>>, <<122888, 122904>>, <<122907, 122913>>,
    <<122915, 122916>>, <<122918, 122922>>, <<123184, 123197>>,
    <<123566, 123566>>, <<123628, 123631>>, <<125136, 125142>>,
    <<125252, 125259>>, <<127995, 127999>>, <<917505, 917505>>,
    <<917536, 917631>>, <<917760, 917999>> }
\* str.lower() above U+007F: c + delta on the runs <<lo, hi, step, delta>>,
\* several characters for the special ones
LowerRuns == {
    <<192, 214, 1, 32>>, <<216, 222, 1, 32>>, <<256, 302, 2, 1>>,
    <<306, 310, 2, 1>>, <<313, 327, 2, 1>>, <<330, 374, 2, 1>>,
    <<376, 376, 1, -121>>, <<377, 381, 2, 1>>, <<385, 385, 1, 210>>,
    <<386, 388, 2, 1>>, <<390, 390, 1, 206>>, <<391, 391, 1, 1>>,
    <<393, 394, 1, 205>>, <<395, 395, 1, 1>>, <<398, 398, 1, 79>>,
    <<399, 399, 1, 202>>, <<400, 400, 1, 203>>, <<401, 401, 1, 1>>,
    <<403, 403, 1, 205>>, <<404, 404, 1, 207>>, <<406, 406, 1, 211>>,
    <<407, 407, 1, 209>>, <<408, 408, 1, 1>>, <<412, 412, 1, 211>>,
    <<413, 413, 1, 213>>, <<415, 415, 1, 214>>, <<416, 420, 2, 1>>,
    <<422, 422, 1, 218>>, <<423, 423, 1, 1>>, <<425, 425, 1, 218>>,
    <<428, 428, 1, 1>>, <<430, 430, 1, 218>>, <<431, 431, 1, 1>>,
    <<433, 434, 1, 217>>, <<435, 437, 2, 1>>, <<439, 439, 1, 219>>,
    <<440, 440, 1, 1>>, <<444, 444, 1, 1>>, <<452, 452, 1, 2>>,
    <<453, 453, 1, 1>>, <<455, 455, 1, 2>>, <<456, 456, 1, 1>>,
    <<458, 458, 1, 2>>, <<459, 475, 2, 1>>, <<478, 494, 2, 1>>,
    <<497, 497, 1, 2>>, <<498, 500, 2, 1>>, <<502, 502, 1, -97>>,
    <<503, 503, 1, -56>>, <<504, 542, 2, 1>>, <<544, 544, 1, -130>>,
    <<546, 562, 2, 1>>, <<570, 570, 1, 10795>>, <<571, 571, 1, 1>>,
    <<573, 573, 1, -163>>, <<574, 574, 1, 10792>>, <<577, 577, 1, 1>>,
    <<579, 579, 1, -195>>, <<580, 580, 1, 69>>, <<581, 581, 1, 71>>,
    <<582, 590, 2, 1>>, <<880, 882, 2, 1>>, <<886, 886, 1, 1>>,
    <<895, 895, 1, 116>>, <<902, 902, 1, 38>>, <<904, 906, 1, 37>>,
    <<908, 908, 1, 64>>, <<910, 911, 1, 63>>, <<913, 929, 1, 32>>,
    <<931, 939, 1, 32>>, <<975, 975, 1, 8>>, <<984, 1006, 2, 1>>,
    <<1012, 1012, 1, -60>>, <<1015, 1015, 1, 1>>, <<1017, 1017, 1, -7>>,
    <<1018, 1018, 1, 1>>, <<1021, 1023, 1, -130>>, <<1024, 1039, 1, 80>>,
    <<1040, 1071, 1, 32>>, <<1120, 1152, 2, 1>>, <<1162, 1214, 2, 1>>,
    <<1216, 1216, 1, 15>>, <<1217, 1229, 2, 1>>, <<1232, 1326, 2, 1>>,
    <<1329, 1366, 1, 48>>, <<4256, 4293, 1, 7264>>, <<4295, 4295, 1, 7264>>,
    <<4301, 4301, 1, 7264>>, <<5024, 5103, 1, 38864>>, <<5104, 5109, 1, 8>>,
    <<7312, 7354, 1, -3008>>, <<7357, 7359, 1, -3008>>,
    <<7680, 7828, 2, 1>>, <<7838, 7838, 1, -7615>>, <<7840, 7934, 2, 1>>,
    <<7944, 7951, 1, -8>>, <<7960, 7965, 1, -8>>, <<7976, 7983, 1, -8>>,
    <<7992, 7999, 1, -8>>, <<8008, 8013, 1, -8>>, <<8025, 8031, 2, -8>>,
    <<8040, 8047, 1, -8>>, <<8072, 8079, 1, -8>>, <<8088, 8095, 1, -8>>,
    <<8104, 8111, 1, -8>>, <<8120, 8121, 1, -8>>, <<8122, 8123, 1, -74>>,
    <<8124, 8124, 1, -9>>, <<8136, 8139, 1, -86>>, <<8140, 8140, 1, -9>>,
    <<8152, 8153, 1, -8>>, <<8154, 8155, 1, -100>>, <<8168, 8169, 1, -8>>,
    <<8170, 8171, 1, -112>>, <<8172, 8172, 1, -7>>, <<8184, 8185, 1, -128>>,
    <<8186, 8187, 1, -126>>, <<8188, 8188, 1, -9>>,
    <<8486, 8486, 1, -7517>>, <<8490, 8490, 1, -8383>>,
    <<8491, 8491, 1, -8262>>, <<8498, 8498, 1, 28>>, <<8544, 8559, 1, 16>>,
    <<8579, 8579, 1, 1>>, <<9398, 9423, 1, 26>>, <<11264, 11311, 1, 48>>,
    <<11360, 11360, 1, 1>>, <<11362, 11362, 1, -10743>>,
    <<11363, 11363, 1, -3814>>, <<11364, 11364, 1, -10727>>,
    <<11367, 11371, 2, 1>>, <<11373, 11373, 1, -10780>>,
    <<11374, 11374, 1, -10749>>, <<11375, 11375, 1, -10783>>,
    <<11376, 11376, 1, -10782>>, <<11378, 11378, 1, 1>>,
    <<11381, 11381, 1, 1>>, <<11390, 11391, 1, -10815>>,
    <<11392, 11490, 2, 1>>, <<11499, 11501, 2, 1>>, <<11506, 11506, 1, 1>>,
    <<42560, 42604, 2, 1>>, <<42624, 42650, 2, 1>>, <<42786, 42798, 2, 1>>,
    <<42802, 42862, 2, 1>>, <<42873, 42875, 2, 1>>,
    <<42877, 42877, 1, -35332>>, <<42878, 42886, 2, 1>>,
    <<42891, 42891, 1, 1>>, <<42893, 42893, 1, -42280>>,
    <<42896, 42898, 2, 1>>, <<42902, 42920, 2, 1>>,
    <<42922, 42922, 1, -42308>>, <<42923, 42923, 1, -42319>>,
    <<42924, 42924, 1, -42315>>, <<42925, 42925, 1, -42305>>,
    <<42926, 42926, 1, -42308>>, <<42928, 42928, 1, -42258>>,
    <<42929, 42929, 1, -42282>>, <<42930, 42930, 1, -42261>>,
    <<42931, 42931, 1, 928>>, <<42932, 42946, 2, 1>>,
    <<42948, 42948, 1, -48>>, <<42949, 42949, 1, -42307>>,
    <<42950, 42950, 1, -35384>>, <<42951, 42953, 2, 1>>,
    <<42960, 42960, 1, 1>>, <<42966, 42968, 2, 1>>, <<42997, 42997, 1, 1>>,
    <<65313, 65338, 1, 32>>, <<66560, 66599, 1, 40>>,
    <<66736, 66771, 1, 40>>, <<66928, 66938, 1, 39>>,
    <<66940, 66954, 1, 39>>, <<66956, 66962, 1, 39>>,
    <<66964, 66965, 1, 39>>, <<68736, 68786, 1, 64>>,
    <<71840, 71871, 1, 32>>, <<93760, 93791, 1, 32>>,
    <<125184, 125217, 1, 34>> }
LowerSpecial == {
    <<304, <<105, 775>>>> }
\* str.upper() above U+007F
UpperRuns == {
    <<181, 181, 1, 743>>, <<224, 246, 1, -32>>, <<248, 254, 1, -32>>,
    <<255, 255, 1, 121>>, <<257, 303, 2, -1>>, <<305, 305, 1, -232>>,
    <<307, 311, 2, -1>>, <<314, 328, 2, -1>>, <<331, 375, 2, -1>>,
    <<378, 382, 2, -1>>, <<383, 383, 1, -300>>, <<384, 384, 1, 195>>,
    <<387, 389, 2, -1>>, <<392, 392, 1, -1>>, <<396, 396, 1, -1>>,
    <<402, 402, 1, -1>>, <<405, 405, 1, 97>>, <<409, 409, 1, -1>>,
    <<410, 410, 1, 163>>, <<414, 414, 1, 130>>, <<417, 421, 2, -1>>,
    <<424, 424, 1, -1>>, <<429, 429, 1, -1>>, <<432, 432, 1, -1>>,
    <<436, 438, 2, -1>>, <<441, 441, 1, -1>>, <<445, 445, 1, -1>>,
    <<447, 447, 1, 56>>, <<453, 453, 1, -1>>, <<454, 454, 1, -2>>,
    <<456, 456, 1, -1>>, <<457, 457, 1, -2>>, <<459, 459, 1, -1>>,
    <<460, 460, 1, -2>>, <<462, 476, 2, -1>>, <<477, 477, 1, -79>>,
    <<479, 495, 2, -1>>, <<498, 498, 1, -1>>, <<499, 499, 1, -2>>,
    <<501, 501, 1, -1>>, <<505, 543, 2, -1>>, <<547, 563, 2, -1>>,
    <<572, 572, 1, -1>>, <<575, 576, 1, 10815>>, <<578, 578, 1, -1>>,
    <<583, 591, 2, -1>>, <<592, 592, 1, 10783>>, <<593, 593, 1, 10780>>,
    <<594, 594, 1, 10782>>, <<595, 595, 1, -210>>, <<596, 596, 1, -206>>,
    <<598, 599, 1, -205>>, <<601, 601, 1, -202>>, <<603, 603, 1, -203>>,
    <<604, 604, 1, 42319>>, <<608, 608, 1, -205>>, <<609, 609, 1, 42315>>,
    <<611, 611, 1, -207>>, <<613, 613, 1, 42280>>, <<614, 614, 1, 42308>>,
    <<616, 616, 1, -209>>, <<617, 617, 1, -211>>, <<618, 618, 1, 42308>>,
    <<619, 619, 1, 10743>>, <<620, 620, 1, 42305>>, <<623, 623, 1, -211>>,
    <<625, 625, 1, 10749>>, <<626, 626, 1, -213>>, <<629, 629, 1, -214>>,
    <<637, 637, 1, 10727>>, <<640, 640, 1, -218>>, <<642, 642, 1, 42307>>,
    <<643, 643, 1, -218>>, <<647, 647, 1, 42282>>, <<648, 648, 1, -218>>,
    <<649, 649, 1, -69>>, <<650, 651, 1, -217>>, <<652, 652, 1, -71>>,
    <<658, 658, 1, -219>>, <<669, 669, 1, 42261>>, <<670, 670, 1, 42258>>,
    <<837, 837, 1, 84>>, <<881, 883, 2, -1>>, <<887, 887, 1, -1>>,
    <<891, 893, 1, 130>>, <<940, 940, 1, -38>>, <<941, 943, 1, -37>>,
    <<945, 961, 1, -32>>, <<962, 962, 1, -31>>, <<963, 971, 1, -32>>,
    <<972, 972, 1, -64>>, <<973, 974, 1, -63>>, <<976, 976, 1, -62>>,
    <<977, 977, 1, -57>>, <<981, 981, 1, -47>>, <<982, 982, 1, -54>>,
    <<983, 983, 1, -8>>, <<985, 1007, 2, -1>>, <<1008, 1008, 1, -86>>,
    <<1009, 1009, 1, -80>>, <<1010, 1010, 1, 7>>, <<1011, 1011, 1, -116>>,
    <<1013, 1013, 1, -96>>, <<1016, 1016, 1, -1>>, <<1019, 1019, 1, -1>>,
    <<1072, 1103, 1, -32>>, <<1104, 1119, 1, -80>>, <<1121, 1153, 2, -1>>,
    <<1163, 1215, 2, -1>>, <<1218, 1230, 2, -1>>, <<1231, 1231, 1, -15>>,
    <<1233, 1327, 2, -1>>, <<1377, 1414, 1, -48>>, <<4304, 4346, 1, 3008>>,
    <<4349, 4351, 1, 3008>>, <<5112, 5117, 1, -8>>,
    <<7296, 7296, 1, -6254>>, <<7297, 7297, 1, -6253>>,
    <<7298, 7298, 1, -6244>>, <<7299, 7300, 1, -6242>>,
    <<7301, 7301, 1, -6243>>, <<7302, 7302, 1, -6236>>,
    <<7303, 7303, 1, -6181>>, <<7304, 7304, 1, 35266>>,
    <<7545, 7545, 1, 35332>>, <<7549, 7549, 1, 3814>>,
    <<7566, 7566, 1, 35384>>, <<7681, 7829, 2, -1>>, <<7835, 7835, 1, -59>>,
    <<7841, 7935, 2, -1>>, <<7936, 7943, 1, 8>>, <<7952, 7957, 1, 8>>,
    <<7968, 7975, 1, 8>>, <<7984, 7991, 1, 8>>, <<8000, 8005, 1, 8>>,
    <<8017, 8023, 2, 8>>, <<8032, 8039, 1, 8>>, <<8048, 8049, 1, 74>>,
    <<8050, 8053, 1, 86>>, <<8054, 8055, 1, 100>>, <<8056, 8057, 1, 128>>,
    <<8058, 8059, 1, 112>>, <<8060, 8061, 1, 126>>, <<8112, 8113, 1, 8>>,
    <<8126, 8126, 1, -7205>>, <<8144, 8145, 1, 8>>, <<8160, 8161, 1, 8>>,
    <<8165, 8165, 1, 7>>, <<8526, 8526, 1, -28>>, <<8560, 8575, 1, -16>>,
    <<8580, 8580, 1, -1>>, <<9424, 9449, 1, -26>>, <<11312, 11359, 1, -48>>,
    <<11361, 11361, 1, -1>>, <<11365, 11365, 1, -10795>>,
    <<11366, 11366, 1, -10792>>, <<11368, 11372, 2, -1>>,
    <<11379, 11379, 1, -1>>, <<11382, 11382, 1, -1>>,
    <<11393, 11491, 2, -1>>, <<11500, 11502, 2, -1>>,
    <<11507, 11507, 1, -1>>, <<11520, 11557, 1, -7264>>,
    <<11559, 11559, 1, -7264>>, <<11565, 11565, 1, -7264>>,
    <<42561, 42605, 2, -1>>, <<42625, 42651, 2, -1>>,
    <<42787, 42799, 2, -1>>, <<42803, 42863, 2, -1>>,
    <<42874, 42876, 2, -1>>, <<42879, 42887, 2, -1>>,
    <<42892, 42892, 1, -1>>, <<42897, 42899, 2, -1>>,
    <<42900, 42900, 1, 48>>, <<42903, 42921, 2, -1>>,
    <<42933, 42947, 2, -1>>, <<42952, 42954, 2, -1>>,
    <<42961, 42961, 1, -1>>, <<42967, 42969, 2, -1>>,
    <<42998, 42998, 1, -1>>, <<43859, 43859, 1, -928>>,
    <<43888, 43967, 1, -38864>>, <<65345, 65370, 1, -32>>,
    <<66600, 66639, 1, -40>>, <<66776, 66811, 1, -40>>,
    <<66967, 66977, 1, -39>>, <<66979, 66993, 1, -39>>,
    <<66995, 67001, 1, -39>>, <<67003, 67004, 1, -39>>,
    <<68800, 68850, 1, -64>>, <<71872, 71903, 1, -32>>,
    <<93792, 93823, 1, -32>>, <<125218, 125251, 1, -34>> }
UpperSpecial == {
    <<223, <<83, 83>>>>, <<329, <<700, 78>>>>, <<496, <<74, 780>>>>,
    <<912, <<921, 776, 769>>>>, <<944, <<933, 776, 769>>>>,
    <<1415, <<1333, 1362>>>>, <<7830, <<72, 817>>>>, <<7831, <<84, 776>>>>,
    <<7832, <<87, 778>>>>, <<7833, <<89, 778>>>>, <<7834, <<65, 702>>>>,
    <<8016, <<933, 787>>>>, <<8018, <<933, 787, 768>>>>,
    <<8020, <<933, 787, 769>>>>, <<8022, <<933, 787, 834>>>>,
    <<8064, <<7944, 921>>>>, <<8065, <<7945, 921>>>>,
    <<8066, <<7946, 921>>>>, <<8067, <<7947, 921>>>>,
    <<8068, <<7948, 921>>>>, <<8069, <<7949, 921>>>>,
    <<8070, <<7950, 921>>>>, <<8071, <<7951, 921>>>>,
    <<8072, <<7944, 921>>>>, <<8073, <<7945, 921>>>>,
    <<8074, <<7946, 921>>>>, <<8075, <<7947, 921>>>>,
    <<8076, <<7948, 921>>>>, <<8077, <<7949, 921>>>>,
    <<8078, <<7950, 921>>>>, <<8079, <<7951, 921>>>>,
    <<8080, <<7976, 921>>>>, <<8081, <<7977, 921>>>>,
    <<8082, <<7978, 921>>>>, <<8083, <<7979, 921>>>>,
    <<8084, <<7980, 921>>>>, <<8085, <<7981, 921>>>>,
    <<8086, <<7982, 921>>>>, <<8087, <<7983, 921>>>>,
    <<8088, <<7976, 921>>>>, <<8089, <<7977, 921>>>>,
    <<8090, <<7978, 921>>>>, <<8091, <<7979, 921>>>>,
    <<8092, <<7980, 921>>>>, <<8093, <<7981, 921>>>>,
    <<8094, <<7982, 921>>>>, <<8095, <<7983, 921>>>>,
    <<8096, <<8040, 921>>>>, <<8097, <<8041, 921>>>>,
    <<8098, <<8042, 921>>>>, <<8099, <<8043, 921>>>>,
    <<8100, <<8044, 921>>>>, <<8101, <<8045, 921>>>>,
    <<8102, <<8046, 921>>>>, <<8103, <<8047, 921>>>>,
    <<8104, <<8040, 921>>>>, <<8105, <<8041, 921>>>>,
    <<8106, <<8042, 921>>>>, <<8107, <<8043, 921>>>>,
    <<8108, <<8044, 921>>>>, <<8109, <<8045, 921>>>>,
    <<8110, <<8046, 921>>>>, <<8111, <<8047, 921>>>>,
    <<8114, <<8122, 921>>>>, <<8115, <<913, 921>>>>, <<8116, <<902, 921>>>>,
    <<8118, <<913, 834>>>>, <<8119, <<913, 834, 921>>>>,
    <<8124, <<913, 921>>>>, <<8130, <<8138, 921>>>>, <<8131, <<919, 921>>>>,
    <<8132, <<905, 921>>>>, <<8134, <<919, 834>>>>,
    <<8135, <<919, 834, 921>>>>, <<8140, <<919, 921>>>>,
    <<8146, <<921, 776, 768>>>>, <<8147, <<921, 776, 769>>>>,
    <<8150, <<921, 834>>>>, <<8151, <<921, 776, 834>>>>,
    <<8162, <<933, 776, 768>>>>, <<8163, <<933, 776, 769>>>>,
    <<8164, <<929, 787>>>>, <<8166, <<933, 834>>>>,
    <<8167, <<933, 776, 834>>>>, <<8178, <<8186, 921>>>>,
    <<8179, <<937, 921>>>>, <<8180, <<911, 921>>>>, <<8182, <<937, 834>>>>,
    <<8183, <<937, 834, 921>>>>, <<8188, <<937, 921>>>>,
    <<64256, <<70, 70>>>>, <<64257, <<70, 73>>>>, <<64258, <<70, 76>>>>,
    <<64259, <<70, 70, 73>>>>, <<64260, <<70, 70, 76>>>>,
    <<64261, <<83, 84>>>>, <<64262, <<83, 84>>>>, <<64275, <<1348, 1350>>>>,
    <<64276, <<1348, 1333>>>>, <<64277, <<1348, 1339>>>>,
    <<64278, <<1358, 1350>>>>, <<64279, <<1348, 1341>>>> }
\* the line boundaries of str.splitlines()
LineBreaks == {10, 11, 12, 13, 28, 29, 30, 133, 8232, 8233}

\* \d of the re module
IsDigit(c) == c \in 48..57 \/ (c > 127 /\ \E z \in DigitZeros : c \in z..(z + 9))
\* int() of a one-digit string
DigitVal(c) ==
    IF c \in 48..57 THEN c - 48 ELSE c - (CHOOSE z \in DigitZeros : c \in z..(z + 9))
\* [A-Z] under re.IGNORECASE
IsLetter(c) == c \in 65..90 \/ c \in 97..122 \/ (c > 127 /\ c \in IgnoreCaseLetters)

\* str.isspace() of one character, and \s
IsSpace(c) == c \in SpaceChars
\* \w of the re module
IsWordChar(c) ==
    IF c < 128 THEN c \in 48..57 \/ c \in 65..90 \/ c \in 97..122 \/ c = UNDERSCORE
    ELSE InRanges(c, WordRanges)

IsCased(c) == InRanges(c, CasedRanges)
IsCaseIgnorable(c) == InRanges(c, IgnorableRanges)

\* c.lower() and c.upper() of one character, as strings
LowerChar(c) ==
    IF c < 128 THEN (IF c \in 65..90 THEN <<c + 32>> ELSE <<c>>)
    ELSE IF \E t \in LowerSpecial : t[1] = c THEN (CHOOSE t \in LowerSpecial : t[1] = c)[2]
    ELSE IF \E r \in LowerRuns : InRun(c, r)
         THEN <<c + (CHOOSE r \in LowerRuns : InRun(c, r))[4]>>
    ELSE <<c>>
UpperChar(c) ==
    IF c < 128 THEN (IF c \in 97..122 THEN <<c - 32>> ELSE <<c>>)
    ELSE IF \E t \in UpperSpecial : t[1] = c THEN (CHOOSE t \in UpperSpecial : t[1] = c)[2]
    ELSE IF \E r \in UpperRuns : InRun(c, r)
         THEN <<c + (CHOOSE r \in UpperRuns : InRun(c, r))[4]>>
    ELSE <<c>>

\* the lower case of the capital sigma at position i of s: a final sigma
\* after a cased character and before no cased character, case-ignorable
\* characters skipped on both sides
SigmaAt(s, i) ==
    LET before == {j \in 1..(i - 1) : ~IsCaseIgnorable(s[j])}
        after == {j \in (i + 1)..Len(s) : ~IsCaseIgnorable(s[j])}
        prev == CHOOSE j \in before : \A k \in before : k <= j
        next == CHOOSE j \in after : \A k \in after : j <= k
    IN  IF /\ before # {}
           /\ IsCased(s[prev])
           /\ (after = {} \/ ~IsCased(s[next]))
        THEN FINAL_SIGMA ELSE SMALL_SIGMA

RECURSIVE Concat(_)
\* "".join(parts)
Concat(parts) == IF parts = <<>> THEN <<>> ELSE Head(parts) \o Concat(Tail(parts))

\* str.lower() and str.upper()
Lower(s) ==
    Concat(Tuple([i \in 1..Len(s) |->
                     IF s[i] = CAPITAL_SIGMA THEN <<SigmaAt(s, i)>> ELSE LowerChar(s[i])]))
Upper(s) == Concat(Tuple([i \in 1..Len(s) |-> UpperChar(s[i])]))

RECURSIVE LStrip(_)
LStrip(s) == IF s # <<>> /\ IsSpace(Head(s)) THEN LStrip(Tail(s)) ELSE s
RECURSIVE RStrip(_)
RStrip(s) ==
    IF s # <<>> /\ IsSpace(s[Len(s)]) THEN RStrip(SubSeq(s, 1, Len(s) - 1)) ELSE s
\* str.strip()
Strip(s) == RStrip(LStrip(s))

StartsWith(s, p) == Len(s) >= Len(p) /\ SubSeq(s, 1, Len(p)) = p
EndsWith(s, p) == Len(s) >= Len(p) /\ SubSeq(s, Len(s) - Len(p) + 1, Len(s)) = p

\* str.replace(c, "") for a one-character c
RemoveChar(s, c) == SelectSeq(s, LAMBDA x : x # c)
\* str.replace(c, d) for one-character c and d
ReplaceChar(s, c, d) == Tuple([i \in 1..Len(s) |-> IF s[i] = c THEN d ELSE s[i]])

RECURSIVE JoinWith(_, _)
\* sep.join(parts)
JoinWith(parts, sep) ==
    IF parts = <<>> THEN <<>>
    ELSE IF Len(parts) = 1 THEN parts[1]
    ELSE parts[1] \o sep \o JoinWith(Tail(parts), sep)

\* the order of two strings: lexicographic by code point
RECURSIVE StrLess(_, _)
StrLess(a, b) ==
    IF b = <<>> THEN FALSE
    ELSE IF a = <<>> THEN TRUE
    ELSE IF a[1] < b[1] THEN TRUE
    ELSE IF a[1] > b[1] THEN FALSE
    ELSE StrLess(Tail(a), Tail(b))

\* -------------------------------------------------------- module patterns
\* the characters of the class HYPHEN_CLASS
HYPHEN_CLASS == {45, 8208, 8209, 8210, 8211, 8212, 8722, 65123, 65293}
\* the strings of the set HYPHEN_CHARS: U+2011 is not among them
HYPHEN_CHARS == {<<45>>, <<8208>>, <<8210>>, <<8211>>, <<8212>>, <<8722>>, <<65123>>, <<65293>>}

\* re.sub(HYPHEN_CLASS, "-", t)
SubHyphens(t) ==
    Tuple([i \in 1..Len(t) |-> IF t[i] \in HYPHEN_CLASS THEN HYPHEN ELSE t[i]])

normalize_token(t) ==
    The({SubHyphens(t2) :
            t2 \in {ReplaceChar(RemoveChar(RemoveChar(Strip(t), ZWSP), BOM), NBSP, SPACE)}})

AllDigits(s) == \A i \in 1..Len(s) : IsDigit(s[i])
AllLetters(s) == \A i \in 1..Len(s) : IsLetter(s[i])

\* the string a pattern that ends in $ has to match in full: $ also
\* matches before one line feed that ends the string
Chomp(s) == IF s # <<>> /\ s[Len(s)] = LF THEN SubSeq(s, 1, Len(s) - 1) ELSE s

\* ^\d{4}$ and ^\d{2}$
YEAR_RE(s) == \E t \in {Chomp(s)} : Len(t) = 4 /\ AllDigits(t)
MD_RE(s) == \E t \in {Chomp(s)} : Len(t) = 2 /\ AllDigits(t)

\* ^\s*(\d{4})H(\d{2})H(\d{2})\*?\s*$ with H a hyphen of HYPHEN_CLASS
DropStar(b) == IF b # <<>> /\ b[Len(b)] = STAR THEN SubSeq(b, 1, Len(b) - 1) ELSE b
FULL_DATE_RE(s) ==
    \E b \in {Strip(s)} : \E c \in {DropStar(b)} :
        /\ Len(c) = 10
        /\ AllDigits(SubSeq(c, 1, 4))
        /\ c[5] \in HYPHEN_CLASS
        /\ AllDigits(SubSeq(c, 6, 7))
        /\ c[8] \in HYPHEN_CLASS
        /\ AllDigits(SubSeq(c, 9, 10))
\* the three groups of a FULL_DATE_RE match
FullDateGroups(s) ==
    The({<<SubSeq(b, 1, 4), SubSeq(b, 6, 7), SubSeq(b, 9, 10)>> : b \in {Strip(s)}})

\* ^[A-Z]{1,6}\d{2,7}$, case-insensitive
ACT_ID_RE(s) ==
    \E t \in {Chomp(s)} : \E k \in 1..6 :
        /\ Len(t) - k \in 2..7
        /\ AllLetters(SubSeq(t, 1, k))
        /\ AllDigits(SubSeq(t, k + 1, Len(t)))
\* ^[A-Z]\d{2,3}$, case-insensitive
PKG_RE(s) ==
    \E t \in {Chomp(s)} :
        /\ Len(t) \in 3..4
        /\ IsLetter(t[1])
        /\ AllDigits(SubSeq(t, 2, Len(t)))

looks_like_activity_id(tok) == \E t \in {normalize_token(tok)} : ACT_ID_RE(t)
is_package_code_AnyId(tok) == \E t \in {normalize_token(tok)} : ACT_ID_RE(t)
is_package_code(tok) == \E t \in {normalize_token(tok)} : PKG_RE(t)

\* rules of WORKTYPE_RULES: the label and the words of the pattern
\* \bw1\s+w2...\b, in table order
WORKTYPE_RULES == <<
    [label |-> "Pile diagram", words |-> <<<<112, 105, 108, 101>> (* pile *), <<100, 105, 97, 103, 114, 97, 109>> (* diagram *)>>],
    [label |-> "Issue pile drawing", words |-> <<<<105, 115, 115, 117, 101>> (* issue *), <<112, 105, 108, 101>> (* pile *), <<100, 114, 97, 119, 105, 110, 103>> (* drawing *)>>],
    [label |-> "Issue DED drawing", words |-> <<<<105, 115, 115, 117, 101>> (* issue *), <<100, 101, 100>> (* ded *), <<100, 114, 97, 119, 105, 110, 103>> (* drawing *)>>],
    [label |-> "Issue final DED drawing",
     words |-> <<<<105, 115, 115, 117, 101>> (* issue *), <<102, 105, 110, 97, 108>> (* final *), <<100, 101, 100>> (* ded *), <<100, 114, 97, 119, 105, 110, 103>> (* drawing *)>>],
    [label |-> "Other professional drawings",
     words |-> <<<<111, 116, 104, 101, 114>> (* other *), <<112, 114, 111, 102, 101, 115, 115, 105, 111, 110, 97, 108>> (* professional *), <<100, 114, 97, 119, 105, 110, 103, 115>> (* drawings *)>>],
    [label |-> "Professional drawings", words |-> <<<<112, 114, 111, 102, 101, 115, 115, 105, 111, 110, 97, 108>> (* professional *), <<100, 114, 97, 119, 105, 110, 103, 115>> (* drawings *)>>],
    [label |-> "General layout", words |-> <<<<103, 101, 110, 101, 114, 97, 108>> (* general *), <<108, 97, 121, 111, 117, 116>> (* layout *)>>],
    [label |-> "Bidding", words |-> <<<<98, 105, 100, 100, 105, 110, 103>> (* bidding *)>>],
    [label |-> "Manufacturing", words |-> <<<<109, 97, 110, 117, 102, 97, 99, 116, 117, 114, 105, 110, 103>> (* manufacturing *)>>],
    [label |-> "Shipping", words |-> <<<<115, 104, 105, 112, 112, 105, 110, 103>> (* shipping *)>>] >>

\* \b at the gap before position i of s
WordBoundary(s, i) ==
    LET before == i > 1 /\ IsWordChar(s[i - 1])
        after == i <= Len(s) /\ IsWordChar(s[i])
    IN  before # after

RECURSIVE SkipSpaces(_, _)
\* first position at or after i that holds no whitespace
SkipSpaces(s, i) == IF i <= Len(s) /\ IsSpace(s[i]) THEN SkipSpaces(s, i + 1) ELSE i

RECURSIVE MatchWordsAt(_, _, _)
\* the words, separated by \s+, match s from position i and end at a \b
MatchWordsAt(s, i, words) ==
    LET w == Head(words)
        j == i + Len(w)
    IN  /\ j - 1 <= Len(s)
        /\ SubSeq(s, i, j - 1) = w
        /\ IF Len(words) = 1 THEN WordBoundary(s, j)
           ELSE /\ j <= Len(s)
                /\ IsSpace(s[j])
                /\ MatchWordsAt(s, SkipSpaces(s, j), Tail(words))

\* re.search of the rule's pattern in s
RuleSearch(words, s) ==
    \E i \in 1..Len(s) : WordBoundary(s, i) /\ MatchWordsAt(s, i, words)

\* the rules whose pattern is found in s
RuleHits(s) == {k \in 1..Len(WORKTYPE_RULES) : RuleSearch(WORKTYPE_RULES[k].words, s)}

infer_work_type(name) ==
    The({IF hits # {} THEN WORKTYPE_RULES[CHOOSE k \in hits : \A h \in hits : k <= h].label
         ELSE IF StartsWith(Upper(name), <<77, 83>> (* MS *)) THEN "Milestone"
         ELSE "Other" :
            hits \in {The({RuleHits(s) : s \in {Lower(name)}})}})

\* ------------------------------------------------------- calendar dates
\* the value of a string of digits
RECURSIVE NumVal(_)
NumVal(s) == IF s = <<>> THEN 0 ELSE 10 * NumVal(SubSeq(s, 1, Len(s) - 1)) + DigitVal(s[Len(s)])

IsLeap(y) == (y % 4 = 0 /\ y % 100 # 0) \/ y % 400 = 0
DaysInMonth(y, m) ==
    IF m = 2 THEN (IF IsLeap(y) THEN 29 ELSE 28)
    ELSE IF m \in {4, 6, 9, 11} THEN 30 ELSE 31

NoDate == [y |-> 0, m |-> 0, d |-> 0]

\* the year of the clock when dateutil built its parser: it is read once,
\* when the module is loaded, and completes every two-digit year after that
VARIABLE clock_year
\* the years the clock can show: any year of a date
ClockYears == 1..9999
\* parserinfo.convertyear of a year that was not recognised as one
ConvertYear(y) ==
    LET c == IF y < 100 THEN y + (clock_year \div 100) * 100 ELSE y
    IN  IF y >= 100 THEN y
        ELSE IF c >= clock_year + 50 THEN c - 100
        ELSE IF c < clock_year - 50 THEN c + 100
        ELSE c
\* the year, month and day dateutil reads in the three numbers of iso.  The
\* first is the year when dateutil meets it as four digits before a hyphen
\* or when it is above 100; a first number followed by a line feed (a year
\* token that ended in one) is lexed apart from the hyphen, and a small one
\* is then read as a day or a month, the year coming last
YmdOf(iso) ==
    The({LET y == NumVal(SubSeq(t, 1, 4))
             m == NumVal(SubSeq(t, 6, 7))
             d == NumVal(SubSeq(t, 9, 10))
         IN  IF iso[5] # LF \/ y > 100 THEN <<y, m, d>>
             ELSE IF y > 31 THEN <<ConvertYear(y), m, d>>
             ELSE IF y > 12 THEN <<ConvertYear(d), m, y>>
             ELSE <<ConvertYear(d), y, m>> : t \in {RemoveChar(iso, LF)}})

parse_iso_NoMonthCheck(iso) ==
    The({IF ymd[1] \in 1..9999 /\ ymd[2] >= 1 /\ ymd[3] \in 1..31
         THEN [y |-> ymd[1], m |-> ymd[2], d |-> ymd[3]]
         ELSE NoDate : ymd \in {YmdOf(iso)}})
\* dateutil's parse of the string, then .date(): an impossible date raises
\* (NoDate)
parse_iso(iso) ==
    The({IF /\ ymd[1] \in 1..9999
            /\ ymd[2] \in 1..12
            /\ ymd[3] \in 1..DaysInMonth(ymd[1], ymd[2])
         THEN [y |-> ymd[1], m |-> ymd[2], d |-> ymd[3]]
         ELSE NoDate : ymd \in {YmdOf(iso)}})

\* days of the months before month m of year y
RECURSIVE DaysBeforeMonth(_, _)
DaysBeforeMonth(y, m) == IF m = 1 THEN 0 ELSE DaysBeforeMonth(y, m - 1) + DaysInMonth(y, m - 1)
\* date.toordinal(): days since 0001-01-01, which is day 1
ToOrdinal(dt) ==
    LET p == dt.y - 1
    IN  p * 365 + (p \div 4) - (p \div 100) + (p \div 400) + DaysBeforeMonth(dt.y, dt.m) + dt.d
\* (a - b).days
DaysBetween(a, b) == ToOrdinal(a) - ToOrdinal(b)

\* n as a decimal string of at least w digits
RECURSIVE ZeroPad(_, _)
ZeroPad(n, w) ==
    IF w <= 1 /\ n < 10 THEN <<48 + n>>
    ELSE ZeroPad(n \div 10, w - 1) \o <<48 + (n % 10)>>
\* date.isoformat()
IsoFormat(dt) ==
    ZeroPad(dt.y, 4) \o <<HYPHEN>> \o ZeroPad(dt.m, 2) \o <<HYPHEN>> \o ZeroPad(dt.d, 2)

\* --------------------------------------------------------- list helpers
\* the positions I in ascending order, and the elements of s at them
Ascending(I) ==
    Tuple([p \in 1..Cardinality(I) |->
              CHOOSE i \in I : Cardinality({j \in I : j < i}) = p - 1])
Indices(I) == The({Ascending(J) : J \in {I}})
Pick(s, I) == The({Tuple([p \in 1..Len(ix) |-> t[ix[p]]]) : t \in {s}, ix \in {Indices(I)}})

\* the value of a missing package_code or package_name
None == <<-1>>

\* the sort keys: the idx of a date, the x0 of a word, the ymid of a line
IdxLess(a, b) == a.idx < b.idx
X0Less(a, b) == a.x0 < b.x0
YmidLess(a, b) == a.ymid < b.ymid

ColLess_NaFirst(a, b) == IF b = None THEN FALSE ELSE IF a = None THEN TRUE ELSE StrLess(a, b)
\* order of one sort column, a missing value after every value
ColLess(a, b) == IF a = None THEN FALSE ELSE IF b = None THEN TRUE ELSE StrLess(a, b)

\* order of ["package_code","start","finish","activity_id"], na_position="last"
RowLess(a, b) ==
    IF a.package_code # b.package_code THEN ColLess(a.package_code, b.package_code)
    ELSE IF a.start # b.start THEN ColLess(a.start, b.start)
    ELSE IF a.finish # b.finish THEN ColLess(a.finish, b.finish)
    ELSE ColLess(a.activity_id, b.activity_id)

\* the strict order of the sort key named by
KeyLess(by, a, b) ==
    IF by = "idx" THEN IdxLess(a, b)
    ELSE IF by = "x0" THEN X0Less(a, b)
    ELSE IF by = "ymid" THEN YmidLess(a, b)
    ELSE RowLess(a, b)

\* the sequence s with every element at its rank in the order named by
Ranked(s, by) ==
    LET n == Len(s)
        rank(i) == Cardinality({j \in 1..n :
                       KeyLess(by, s[j], s[i]) \/ (~KeyLess(by, s[i], s[j]) /\ j < i)})
    IN  Tuple([p \in 1..n |-> s[CHOOSE i \in 1..n : rank(i) = p - 1]])
\* a stable sort of s by the key named by
StableSort(s, by) == The({Ranked(t, by) : t \in {s}})

\* ------------------------------------------------------ date extraction
\* part A of extract_dates_from_tokens: tokens that are a whole date
NormNoStar(tk) == RemoveChar(normalize_token(Strip(tk)), STAR)
FullDateAt(tk, i) ==
    The({[idx |-> i,
          iso |-> g[1] \o <<HYPHEN>> \o g[2] \o <<HYPHEN>> \o g[3],
          star |-> EndsWith(Strip(tk), <<STAR>>)] : g \in {FullDateGroups(NormNoStar(tk))}})
FullTokenDates(tokens) ==
    The({Tuple([p \in 1..Len(ix) |-> FullDateAt(tokens[ix[p]], ix[p] - 1)]) :
            ix \in {Indices({i \in 1..Len(tokens) : FULL_DATE_RE(NormNoStar(tokens[i]))})}})

IsHyphenToken(t) == t \in HYPHEN_CHARS \/ t = <<HYPHEN>>

RECURSIVE SplitTokenDates(_, _)
\* part B: the while loop from position i (0-based), dates split over tokens
SplitTokenDates(tokens, i) ==
    LET n == Len(tokens)
        tk(k) == normalize_token(tokens[k + 1])
    IN  IF i >= n THEN <<>>
        ELSE IF /\ YEAR_RE(tk(i))
                /\ i + 4 < n
                /\ IsHyphenToken(tk(i + 1))
                /\ MD_RE(tk(i + 2))
                /\ IsHyphenToken(tk(i + 3))
                /\ MD_RE(tk(i + 4))
             THEN LET star == i + 5 < n /\ tk(i + 5) = <<STAR>>
                      j == IF star THEN i + 6 ELSE i + 5
                  IN  <<[idx |-> i,
                         iso |-> tk(i) \o <<HYPHEN>> \o tk(i + 2) \o <<HYPHEN>> \o tk(i + 4),
                         star |-> star]>> \o SplitTokenDates(tokens, j)
             ELSE SplitTokenDates(tokens, i + 1)

\* the dates that are the first with their (iso, idx)
FirstOfKey(srt) ==
    Pick(srt, {k \in 1..Len(srt) :
                  ~\E j \in 1..(k - 1) : srt[j].iso = srt[k].iso /\ srt[j].idx = srt[k].idx})

extract_dates_from_tokens(tokens) ==
    The({FirstOfKey(srt) :
            srt \in {StableSort(FullTokenDates(tokens) \o SplitTokenDates(tokens, 0), "idx")}})

\* --------------------------------------------------------------- rows
SetMin(S) == CHOOSE m \in S : \A x \in S : m <= x
SetMax(S) == CHOOSE m \in S : \A x \in S : m >= x

\* words are [x0, y0, x1, y1, txt, block_no, line_no]
\* the words with their text normalized, those with empty text left out
KeptWords(words) ==
    The({Pick(norm, {i \in 1..Len(norm) : norm[i].txt # <<>>}) :
            norm \in {Tuple([i \in 1..Len(words) |->
                                [words[i] EXCEPT !.txt = normalize_token(@)]])}})
LineKey(w) == <<w.block_no, w.line_no>>
\* the line of the words ws of one key
MakeLine(ws) ==
    The({[x0 |-> SetMin({ws_sorted[k].x0 : k \in 1..Len(ws_sorted)}),
          x1 |-> SetMax({ws_sorted[k].x1 : k \in 1..Len(ws_sorted)}),
          ymid |-> SetMin({ws_sorted[k].y0 : k \in 1..Len(ws_sorted)})
                   + SetMax({ws_sorted[k].y1 : k \in 1..Len(ws_sorted)}),
          tokens |-> Tuple([k \in 1..Len(ws_sorted) |-> ws_sorted[k].txt])] :
            ws_sorted \in {StableSort(ws, "x0")}})
\* the words of kept with the key of word i
KeyGroup(kept, i) == Pick(kept, {j \in 1..Len(kept) : LineKey(kept[j]) = LineKey(kept[i])})
\* one line per (block_no, line_no), in the order the keys first appear
GroupLines(kept) ==
    The({Tuple([p \in 1..Len(ix) |-> MakeLine(KeyGroup(kept, ix[p]))]) :
            ix \in {Indices({i \in 1..Len(kept) :
                        ~\E j \in 1..(i - 1) : LineKey(kept[j]) = LineKey(kept[i])})}})

build_lines(words) == The({GroupLines(kept) : kept \in {KeptWords(words)}})

\* ------------------------------------------------------- major group
RECURSIVE SplitLines(_)
\* str.splitlines()
SplitLines(s) ==
    IF s = <<>> THEN <<>>
    ELSE IF \A i \in 1..Len(s) : s[i] \notin LineBreaks THEN <<s>>
    ELSE LET k == CHOOSE i \in 1..Len(s) :
                      s[i] \in LineBreaks /\ \A j \in 1..(i - 1) : s[j] \notin LineBreaks
             \* a carriage return and the line feed after it are one boundary
             w == IF s[k] = 13 /\ k < Len(s) /\ s[k + 1] = LF THEN 2 ELSE 1
         IN  <<SubSeq(s, 1, k - 1)>> \o SplitLines(SubSeq(s, k + w, Len(s)))

\* the major group a text line sets, "None" when it is no heading
HeadingOf(ln) ==
    LET l == Lower(Strip(ln))
    IN  IF StartsWith(l, <<100, 101, 116, 97, 105, 108, 101, 100, 32, 101, 110>> (* detailed en *)) THEN "Detailed Engineering Design"
        ELSE IF StartsWith(l, <<112, 114, 111, 99, 117, 114, 101, 109, 101, 110, 116>> (* procurement *)) THEN "Procurement"
        ELSE IF StartsWith(l, <<101, 109, 112, 108, 111, 121, 101, 114, 32, 114, 101, 118, 105>> (* employer revi *)) THEN "Employer Review and Approval"
        ELSE IF StartsWith(l, <<109, 97, 105, 110, 32, 109, 105, 108, 101>> (* main mile *)) THEN "Main Milestones"
        ELSE "None"

RECURSIVE ScanFrom(_, _)
ScanFrom(cur, lns) ==
    IF lns = <<>> THEN cur
    ELSE ScanFrom(IF HeadingOf(Head(lns)) # "None" THEN HeadingOf(Head(lns)) ELSE cur,
                  Tail(lns))
ScanHeadings_PerPage(cur, lns) == ScanFrom("None", lns)
RECURSIVE ScanHeadings(_, _)
\* the loop over the text lines of a page: the last heading wins
ScanHeadings(cur, lns) ==
    IF lns = <<>> THEN cur
    ELSE ScanHeadings(IF HeadingOf(Head(lns)) # "None" THEN HeadingOf(Head(lns)) ELSE cur,
                      Tail(lns))

\* ---------------------------------------------------- row classification
Take(s, n) == SubSeq(s, 1, IF Len(s) < n THEN Len(s) ELSE n)

\* lines the loop skips: short lines, the table header, page furniture
IsSkipped(toks) ==
    \/ Len(toks) < 2
    \/ \E head \in {Lower(JoinWith(Take(toks, 3), <<SPACE>>))} :
        StartsWith(head, <<97, 99, 116, 105, 118, 105, 116, 121, 32, 105, 100>> (* activity id *)) \/ StartsWith(head, <<97, 99, 116, 105, 118, 105, 116, 121, 105, 100>> (* activityid *))
    \/ Lower(toks[1]) \in {<<109, 111, 110, 116, 104>> (* month *), <<112, 97, 103, 101>> (* page *)}

\* position (from 1) of the first activity id among the first six tokens, or 0
ActPos(toks) ==
    The({IF hits = {} THEN 0 ELSE SetMin(hits) :
            hits \in {{i \in 1..(IF Len(toks) < 6 THEN Len(toks) ELSE 6) :
                          looks_like_activity_id(toks[i])}}})

\* the id line of a line whose activity id is at position p
IdLineAt(ln, p) ==
    [ymid |-> ln.ymid,
     activity_id |-> Upper(normalize_token(ln.tokens[p])),
     activity_name |-> Strip(JoinWith(Tuple([k \in 1..(Len(ln.tokens) - p) |->
                                                normalize_token(ln.tokens[p + k])]), <<SPACE>>)),
     raw |-> JoinWith(Take(ln.tokens, 30), <<32, 124, 32>> (*  |  *))]
IdLineOf(ln) == The({IdLineAt(ln, p) : p \in {ActPos(ln.tokens)}})

DateLineOf(ln) ==
    [ymid |-> ln.ymid,
     dates |-> extract_dates_from_tokens(ln.tokens),
     raw |-> JoinWith(Take(ln.tokens, 40), <<32, 124, 32>> (*  |  *))]

\* id_lines of a page, sorted by ymid
IdLinesOf(lines) ==
    The({StableSort(Tuple([p \in 1..Len(ix) |-> IdLineOf(lines[ix[p]])]), "ymid") :
            ix \in {Indices({i \in 1..Len(lines) :
                        ~IsSkipped(lines[i].tokens) /\ ActPos(lines[i].tokens) > 0})}})

\* date_lines of a page, sorted by ymid
DateLinesOf(lines) ==
    The({StableSort(Pick(all, {i \in 1..Len(all) :
                                  ~IsSkipped(lines[i].tokens) /\ Len(all[i].dates) >= 2}),
                    "ymid") :
            all \in {Tuple([i \in 1..Len(lines) |-> DateLineOf(lines[i])])}})

\* ------------------------------------------------------------- the join
Y_JOIN_MAX == 14
Abs(x) == IF x < 0 THEN 0 - x ELSE x

RECURSIVE NearestFrom(_, _, _, _, _)
\* the loop of nearest_id from line k on; best is a position in ids, 0 for None
NearestFrom(ids, y, k, best, best_d) ==
    IF k > Len(ids) THEN [best |-> best, best_d |-> best_d]
    ELSE LET d == Abs(ids[k].ymid - y)
         IN  IF d < best_d THEN NearestFrom(ids, y, k + 1, k, d)
             ELSE NearestFrom(ids, y, k + 1, best, best_d)

\* best_d starts at 1e9 (doubled, as every distance is)
nearest_id(ids, y) == NearestFrom(ids, y, 1, 0, 2000000000)

\* -------------------------------------------------------------- inputs
\* the words of one rendered line: tokens left to right at height y
LineWords(toks, y, b) ==
    Tuple([i \in 1..Len(toks) |->
              [x0 |-> 10 * i, y0 |-> y - 5, x1 |-> 10 * i + 8, y1 |-> y + 5,
               txt |-> toks[i], block_no |-> b, line_no |-> 0]])
\* the same line with its words delivered right to left
RevLineWords(toks, y, b) ==
    LET w == LineWords(toks, y, b) IN Tuple([i \in 1..Len(w) |-> w[Len(w) + 1 - i]])

PgHeadingOnly ==
    [text |-> <<80, 114, 111, 99, 117, 114, 101, 109, 101, 110, 116, 10>>, words |-> <<>>]
PgPkg ==
    [text |-> <<32, 32, 68, 101, 116, 97, 105, 108, 101, 100, 32, 69, 110, 103, 105, 110, 101, 101, 114, 105, 110, 103, 32, 68, 101, 115, 105, 103, 110, 10, 83, 99, 104, 101, 100, 117, 108, 101, 10, 77, 65, 73, 78, 32, 77, 73, 76, 69, 83, 84, 79, 78, 69, 83, 32, 50, 48, 50, 53, 10>>,
     words |-> LineWords(<<<<65, 49, 48>> (* A10 *), <<80, 105, 108, 105, 110, 103>> (* Piling *), <<119, 111, 114, 107, 115>> (* works *)>>, 100, 1)
               \o LineWords(<<<<50, 48, 50, 53, 45, 48, 49, 45, 48, 49>> (* 2025-01-01 *), <<50, 48, 50, 53, 45, 48, 51, 45, 49, 53>> (* 2025-03-15 *)>>, 101, 2)]
PgAct ==
    [text |-> <<>>,
     words |-> RevLineWords(<<<<68, 68, 49, 48, 53, 48>> (* DD1050 *), <<73, 115, 115, 117, 101>> (* Issue *), <<112, 105, 108, 101>> (* pile *), <<100, 114, 97, 119, 105, 110, 103>> (* drawing *)>>, 100, 1)
               \o LineWords(<<<<50, 48, 50, 53, 45, 48, 50, 45, 48, 49>> (* 2025-02-01 *), <<50, 48, 50, 53, 45, 48, 50, 45, 50, 48, 42>>>>, 103, 2)]
PgMs ==
    [text |-> <<83, 117, 109, 109, 97, 114, 121, 10>>,
     words |-> LineWords(<<<<77, 83, 49, 48, 49, 48>> (* MS1010 *), <<68, 101, 115, 105, 103, 110>> (* Design *), <<102, 114, 101, 101, 122, 101>> (* freeze *)>>, 100, 1)
               \o LineWords(<<<<50, 48, 50, 54>> (* 2026 *), <<8211>>, <<48, 50>> (* 02 *), <<8208>>, <<49, 53>> (* 15 *), <<42>>, <<50, 48, 50, 54, 8212, 48, 50, 8722, 49, 53>>>>, 102, 2)]
PgCollide ==
    [text |-> <<>>,
     words |-> LineWords(<<<<65, 49, 48>> (* A10 *), <<80, 105, 108, 105, 110, 103>> (* Piling *), <<119, 111, 114, 107, 115>> (* works *)>>, 100, 1)
               \o LineWords(<<<<50, 48, 50, 53, 45, 48, 49, 45, 48, 49>> (* 2025-01-01 *), <<50, 48, 50, 53, 45, 48, 51, 45, 49, 53>> (* 2025-03-15 *)>>, 102, 2)
               \o LineWords(<<<<50, 48, 50, 53, 45, 48, 52, 45, 48, 49>> (* 2025-04-01 *), <<50, 48, 50, 53, 45, 48, 52, 45, 51, 48>> (* 2025-04-30 *)>>, 105, 3)]
PgOffset ==
    [text |-> <<69, 109, 112, 108, 111, 121, 101, 114, 32, 82, 101, 118, 105, 101, 119, 10>>,
     words |-> LineWords(<<<<68, 68, 49, 48, 53, 48>> (* DD1050 *), <<73, 115, 115, 117, 101>> (* Issue *), <<112, 105, 108, 101>> (* pile *), <<100, 114, 97, 119, 105, 110, 103>> (* drawing *)>>, 100, 1)
               \o LineWords(<<<<97, 48, 53>> (* a05 *), <<79, 116, 104, 101, 114>> (* Other *), <<112, 114, 111, 102, 101, 115, 115, 105, 111, 110, 97, 108>> (* professional *), <<100, 114, 97, 119, 105, 110, 103, 115>> (* drawings *)>>, 110, 2)
               \o LineWords(<<<<50, 48, 50, 53, 45, 48, 52, 45, 48, 49>> (* 2025-04-01 *), <<50, 48, 50, 53, 45, 48, 52, 45, 51, 48>> (* 2025-04-30 *)>>, 114, 3)
               \o LineWords(<<<<50, 48, 50, 53, 45, 48, 50, 45, 48, 49>> (* 2025-02-01 *), <<50, 48, 50, 53, 45, 48, 50, 45, 50, 48>> (* 2025-02-20 *)>>, 104, 4)
               \o LineWords(<<<<50, 48, 50, 53, 45, 48, 51, 45, 48, 49>> (* 2025-03-01 *), <<50, 48, 50, 53, 45, 48, 51, 45, 49, 48>> (* 2025-03-10 *)>>, 106, 5)]
PgReversed ==
    [text |-> <<>>,
     words |-> LineWords(<<<<68, 68, 50, 48>> (* DD20 *), <<77, 83>> (* MS *), <<103, 97, 116, 101>> (* gate *)>>, 100, 1)
               \o LineWords(<<<<50, 48, 50, 53, 45, 48, 51, 45, 49, 53>> (* 2025-03-15 *), <<50, 48, 50, 53, 45, 48, 49, 45, 48, 49>> (* 2025-01-01 *)>>, 101, 2)
               \o LineWords(<<<<50, 48, 50, 53, 45, 48, 53, 45, 48, 49>> (* 2025-05-01 *), <<50, 48, 50, 53, 45, 48, 53, 45, 48, 49>> (* 2025-05-01 *)>>, 104, 3)]
PgInvalid ==
    [text |-> <<>>,
     words |-> LineWords(<<<<68, 68, 49, 48, 53, 48>> (* DD1050 *), <<73, 115, 115, 117, 101>> (* Issue *), <<112, 105, 108, 101>> (* pile *), <<100, 114, 97, 119, 105, 110, 103>> (* drawing *)>>, 100, 1)
               \o LineWords(<<<<50, 48, 50, 53, 45, 48, 49, 45, 48, 49>> (* 2025-01-01 *), <<50, 48, 50, 53, 45, 48, 51, 45, 49, 53>> (* 2025-03-15 *), <<50, 48, 50, 53, 45, 49, 51, 45, 48, 49>> (* 2025-13-01 *)>>, 101, 2)
               \o LineWords(<<<<50, 48, 50, 53, 45, 48, 50, 45, 51, 48>> (* 2025-02-30 *), <<50, 48, 50, 53, 45, 48, 54, 45, 48, 49>> (* 2025-06-01 *), <<50, 48, 50, 53, 45, 48, 54, 45, 48, 53>> (* 2025-06-05 *)>>, 103, 3)]
PgDup ==
    [text |-> <<>>,
     words |-> LineWords(<<<<65, 49, 48>> (* A10 *), <<82, 101, 110, 97, 109, 101, 100>> (* Renamed *), <<112, 97, 99, 107, 97, 103, 101>> (* package *)>>, 100, 1)
               \o LineWords(<<<<50, 48, 50, 53, 45, 48, 49, 45, 48, 49>> (* 2025-01-01 *), <<50, 48, 50, 53, 45, 48, 51, 45, 49, 53>> (* 2025-03-15 *)>>, 101, 2)]
PgFar ==
    [text |-> <<>>,
     words |-> LineWords(<<<<65, 99, 116, 105, 118, 105, 116, 121>> (* Activity *), <<73, 68>> (* ID *), <<78, 97, 109, 101>> (* Name *)>>, 10, 1)
               \o LineWords(<<<<80, 97, 103, 101>> (* Page *), <<65, 49, 48>> (* A10 *), <<50, 48, 50, 53, 45, 48, 49, 45, 48, 49>> (* 2025-01-01 *), <<50, 48, 50, 53, 45, 48, 50, 45, 48, 49>> (* 2025-02-01 *)>>, 20, 2)
               \o LineWords(<<<<65, 49, 48>> (* A10 *)>>, 30, 3)
               \o LineWords(<<<<68, 68, 49, 48, 53, 48>> (* DD1050 *), <<71, 101, 110, 101, 114, 97, 108>> (* General *), <<108, 97, 121, 111, 117, 116>> (* layout *)>>, 100, 4)
               \o LineWords(<<<<50, 48, 50, 53, 45, 48, 55, 45, 48, 49>> (* 2025-07-01 *), <<50, 48, 50, 53, 45, 48, 55, 45, 48, 50>> (* 2025-07-02 *)>>, 120, 5)]
PgTie ==
    [text |-> <<>>,
     words |-> LineWords(<<<<68, 68, 49, 48, 53, 48>> (* DD1050 *), <<66, 105, 100, 100, 105, 110, 103>> (* Bidding *)>>, 100, 1)
               \o LineWords(<<<<68, 68, 50, 48>> (* DD20 *), <<83, 104, 105, 112, 112, 105, 110, 103>> (* Shipping *)>>, 110, 2)
               \o LineWords(<<<<50, 48, 50, 53, 45, 48, 56, 45, 48, 49>> (* 2025-08-01 *), <<50, 48, 50, 53, 45, 48, 56, 45, 48, 50>> (* 2025-08-02 *)>>, 105, 3)
               \o LineWords(<<<<50, 48, 50, 53, 45, 48, 57, 45, 48, 49>> (* 2025-09-01 *), <<50, 48, 50, 53, 45, 48, 57, 45, 48, 50>> (* 2025-09-02 *)>>, 124, 4)]
PgNarrow ==
    [text |-> <<>>,
     words |-> LineWords(<<<<83, 48, 49>> (* S01 *), <<80, 105, 108, 105, 110, 103>> (* Piling *), <<119, 111, 114, 107, 115>> (* works *), <<50, 48, 50, 53, 45, 48, 49, 45, 48, 49>> (* 2025-01-01 *), <<50, 48, 50, 53, 45, 48, 51, 45, 49, 53>> (* 2025-03-15 *)>>, 100, 1)]

Pages ==
    {PgHeadingOnly, PgPkg, PgAct, PgMs, PgCollide, PgOffset, PgReversed, PgInvalid,
     PgDup, PgFar, PgTie, PgNarrow}
\* the documents: every sequence of at most MaxPages pages
Docs == UNION {[1..n -> Pages] : n \in 0..MaxPages}

\* a letter, a tab, a space, a no-break space, a zero-width space and two
\* hyphens
NormAlphabet == {97, 9, SPACE, NBSP, ZWSP, 8212, HYPHEN}
\* the token texts: every string of at most MaxTokLen characters
TokTexts == UNION {[1..n -> NormAlphabet] : n \in 0..MaxTokLen}

\* --------------------------------------------------------------- state
VARIABLES
    pc,                     \* where extract() is: "open", "page", "join", "final", "done"
    doc,                    \* the pages of the opened document
    total_pages,
    page_i,                 \* 0-based, as in the source
    current_package_code,
    current_package_name,
    current_major_group,
    id_lines,
    date_lines,
    dl_i,                   \* position in date_lines of the join loop (from 1)
    rows,
    join_log,               \* for every appended row: page, id line, date line, distance
    debug_id_lines,
    debug_date_lines,
    debug_joined,
    out,                    \* the rows written to out_csv
    tok_text,               \* the token text given to normalize_token
    norm1,                  \* normalize_token(tok_text)
    norm2,                  \* normalize_token(norm1)
    npc                     \* "idle", "start", "once", "twice"

extractVars ==
    <<clock_year, pc, doc, total_pages, page_i, current_package_code, current_package_name,
      current_major_group, id_lines, date_lines, dl_i, rows, join_log,
      debug_id_lines, debug_date_lines, debug_joined, out>>
normVars == <<tok_text, norm1, norm2, npc>>
vars == <<extractVars, normVars>>

ExtractInit ==
    /\ clock_year \in ClockYears \cap (MinClockYear..MaxClockYear)
    /\ pc = "open"
    /\ doc = <<>>
    /\ total_pages = 0
    /\ page_i = 0
    /\ current_package_code = None
    /\ current_package_name = None
    /\ current_major_group = "None"
    /\ id_lines = <<>>
    /\ date_lines = <<>>
    /\ dl_i = 1
    /\ rows = <<>>
    /\ join_log = <<>>
    /\ debug_id_lines = 0
    /\ debug_date_lines = 0
    /\ debug_joined = 0
    /\ out = <<>>

Init ==
    /\ ExtractInit
    /\ tok_text = <<>> /\ norm1 = <<>> /\ norm2 = <<>> /\ npc = "idle"

\* doc = fitz.open(pdf_path)
Open ==
    /\ pc = "open"
    /\ \E d \in Docs :
        /\ doc' = d
        /\ total_pages' = Len(d)
    /\ pc' = "page"
    /\ UNCHANGED <<page_i, current_package_code, current_package_name, current_major_group,
                   id_lines, date_lines, dl_i, rows, join_log, debug_id_lines,
                   debug_date_lines, debug_joined, out>>
    /\ UNCHANGED <<clock_year, normVars>>

\* one pass of the page loop up to the join: headings, rows, classification
PageStart ==
    /\ pc = "page"
    /\ page_i < total_pages
    /\ \E page \in {doc[page_i + 1]} :
        /\ current_major_group' = ScanHeadings(current_major_group, SplitLines(page.text))
        /\ IF page.words = <<>>
           THEN /\ page_i' = page_i + 1
                /\ UNCHANGED <<pc, id_lines, date_lines, dl_i, debug_id_lines,
                               debug_date_lines>>
           ELSE \E lines \in {build_lines(page.words)} :
                \E ids \in {IdLinesOf(lines)} : \E dls \in {DateLinesOf(lines)} :
                    /\ id_lines' = ids
                    /\ date_lines' = dls
                    /\ debug_id_lines' = debug_id_lines + Len(ids)
                    /\ debug_date_lines' = debug_date_lines + Len(dls)
                    /\ dl_i' = 1
                    /\ IF ids = <<>> \/ dls = <<>>
                       THEN page_i' = page_i + 1 /\ pc' = pc
                       ELSE page_i' = page_i /\ pc' = "join"
    /\ UNCHANGED <<doc, total_pages, current_package_code, current_package_name, rows,
                   join_log, debug_joined, out>>
    /\ UNCHANGED <<clock_year, normVars>>

\* the row appended for the id line lr and the dates start, finish
MakeRow(lr, start, finish, start_d, finish_d, pkg_code, pkg_name) ==
    [major_group |-> IF current_major_group = "None" THEN "Unknown" ELSE current_major_group,
     package_code |-> pkg_code,
     package_name |-> pkg_name,
     activity_id |-> lr.activity_id,
     activity_name |-> lr.activity_name,
     work_type |-> infer_work_type(lr.activity_name),
     start |-> IsoFormat(start_d),
     finish |-> IsoFormat(finish_d),
     duration_days |-> DaysBetween(finish_d, start_d),
     is_milestone |-> start_d = finish_d,
     source_page |-> page_i + 1,
     pdf_pages |-> total_pages,
     start_star |-> start.star,
     finish_star |-> finish.star]

\* the three `continue`s of the join loop: no id line in reach, a date that
\* does not parse, a finish before the start
PairDropped_NoDurationCheck(near, start_d, finish_d) ==
    \/ near.best = 0
    \/ near.best_d > 2 * Y_JOIN_MAX
    \/ start_d = NoDate
    \/ finish_d = NoDate
PairDropped_OnePerIdLine(near, start_d, finish_d) ==
    \/ near.best = 0
    \/ near.best_d > 2 * Y_JOIN_MAX
    \/ start_d = NoDate
    \/ finish_d = NoDate
    \/ DaysBetween(finish_d, start_d) < 0
    \/ \E j \in 1..Len(join_log) : join_log[j].page = page_i + 1 /\ join_log[j].id = near.best
PairDropped(near, start_d, finish_d) ==
    \/ near.best = 0
    \/ near.best_d > 2 * Y_JOIN_MAX
    \/ start_d = NoDate
    \/ finish_d = NoDate
    \/ DaysBetween(finish_d, start_d) < 0

\* one pass of the loop over date_lines
JoinStep ==
    /\ pc = "join"
    /\ LET dl == date_lines[dl_i]
           near == nearest_id(id_lines, dl.ymid)
           start == dl.dates[Len(dl.dates) - 1]
           finish == dl.dates[Len(dl.dates)]
           start_d == parse_iso(start.iso)
           finish_d == parse_iso(finish.iso)
           lr == id_lines[near.best]
           is_pkg == is_package_code(lr.activity_id)
           pkg_code == IF is_pkg THEN lr.activity_id ELSE current_package_code
           pkg_name == IF is_pkg THEN lr.activity_name ELSE current_package_name
       IN  IF PairDropped(near, start_d, finish_d)
           THEN UNCHANGED <<current_package_code, current_package_name, rows, join_log,
                            debug_joined>>
           ELSE /\ current_package_code' = pkg_code
                /\ current_package_name' = pkg_name
                /\ debug_joined' = debug_joined + 1
                /\ rows' = Append(rows, MakeRow(lr, start, finish, start_d, finish_d,
                                                pkg_code, pkg_name))
                /\ join_log' = Append(join_log, [page |-> page_i + 1, id |-> near.best,
                                                 dl |-> dl_i, dist |-> near.best_d])
    /\ IF dl_i < Len(date_lines)
       THEN dl_i' = dl_i + 1 /\ UNCHANGED <<pc, page_i>>
       ELSE dl_i' = 1 /\ pc' = "page" /\ page_i' = page_i + 1
    /\ UNCHANGED <<doc, total_pages, current_major_group, id_lines, date_lines,
                   debug_id_lines, debug_date_lines, out>>
    /\ UNCHANGED <<clock_year, normVars>>

SameKey(a, b) ==
    a.activity_id = b.activity_id /\ a.start = b.start /\ a.finish = b.finish

drop_duplicates_KeepLast(rs) ==
    Pick(rs, {i \in 1..Len(rs) : ~\E j \in (i + 1)..Len(rs) : SameKey(rs[j], rs[i])})
\* df.drop_duplicates(subset=["activity_id","start","finish"])
drop_duplicates(rs) ==
    Pick(rs, {i \in 1..Len(rs) : ~\E j \in 1..(i - 1) : SameKey(rs[j], rs[i])})

sort_values(rs) == StableSort(rs, "row")

\* after the page loop: de-duplicate, sort and write the rows
Finalize ==
    /\ pc = "page"
    /\ page_i >= total_pages
    /\ out' = IF rows = <<>> THEN <<>> ELSE sort_values(drop_duplicates(rows))
    /\ pc' = "done"
    /\ UNCHANGED <<doc, total_pages, page_i, current_package_code, current_package_name,
                   current_major_group, id_lines, date_lines, dl_i, rows, join_log,
                   debug_id_lines, debug_date_lines, debug_joined>>
    /\ UNCHANGED <<clock_year, normVars>>

Next == Open \/ PageStart \/ JoinStep \/ Finalize

Spec == Init /\ [][Next]_vars

\* ----------------------------------------- normalize_token on its own
NormInit ==
    /\ ExtractInit
    /\ tok_text \in TokTexts
    /\ norm1 = <<>> /\ norm2 = <<>> /\ npc = "start"

NormOnce ==
    /\ npc = "start"
    /\ norm1' = normalize_token(tok_text)
    /\ npc' = "once"
    /\ UNCHANGED <<tok_text, norm2>>
    /\ UNCHANGED extractVars

NormTwice ==
    /\ npc = "once"
    /\ norm2' = normalize_token(norm1)
    /\ npc' = "twice"
    /\ UNCHANGED <<tok_text, norm1>>
    /\ UNCHANGED extractVars

NormNext == NormOnce \/ NormTwice

NormSpec == NormInit /\ [][NormNext]_vars

\* ============================================================ properties
\* id lines and date lines of page p (from 1) of the document
PageTable ==
    [pg \in Pages |-> [ids |-> IdLinesOf(build_lines(pg.words)),
                       dls |-> DateLinesOf(build_lines(pg.words)),
                       text |-> SplitLines(pg.text)]]
PageIdLines(p) == PageTable[doc[p]].ids
PageDateLines(p) == PageTable[doc[p]].dls
PageTextLines(p) == PageTable[doc[p]].text
\* the start and the finish of a date line: its last two dates
StartOf(dl) == dl.dates[Len(dl.dates) - 1]
FinishOf(dl) == dl.dates[Len(dl.dates)]
\* the join loop has dealt with date line k of page p
Processed(p, k) == p <= page_i \/ (pc = "join" /\ p = page_i + 1 /\ k < dl_i)
\* some id line of page p lies within the join distance of date line dl
InReach(p, dl) ==
    \E r \in 1..Len(PageIdLines(p)) : Abs(PageIdLines(p)[r].ymid - dl.ymid) <= 2 * Y_JOIN_MAX
HasJoin(p, k) == \E j \in 1..Len(join_log) : join_log[j].page = p /\ join_log[j].dl = k

\* a YYYY-MM-DD string names a day of the calendar
MonthLengths == <<31, 28, 31, 30, 31, 30, 31, 31, 30, 31, 30, 31>>
CumulativeDays == <<0, 31, 59, 90, 120, 151, 181, 212, 243, 273, 304, 334>>
LeapYear(y) == IF y % 100 = 0 THEN y % 400 = 0 ELSE y % 4 = 0
IsCalendarDate(iso) ==
    LET y == NumVal(SubSeq(iso, 1, 4))
        m == NumVal(SubSeq(iso, 6, 7))
        d == NumVal(SubSeq(iso, 9, 10))
    IN  /\ y >= 1 /\ m >= 1 /\ m <= 12 /\ d >= 1
        /\ d <= MonthLengths[m] + (IF m = 2 /\ LeapYear(y) THEN 1 ELSE 0)
\* the number of the day a valid YYYY-MM-DD string names
DayNumber(iso) ==
    LET y == NumVal(SubSeq(iso, 1, 4))
        m == NumVal(SubSeq(iso, 6, 7))
        d == NumVal(SubSeq(iso, 9, 10))
        q == y - 1
    IN  365 * q + (q \div 4) - (q \div 100) + (q \div 400) + CumulativeDays[m]
        + (IF m > 2 /\ LeapYear(y) THEN 1 ELSE 0) + d

\* C1: every appended record has finish >= start and duration_days equal to
\* the number of days from start to finish, which is >= 0; a joined pair whose
\* last date is earlier than its second-to-last date yields no record and so
\* never reaches the written set.
DurationNonNegative ==
    /\ \A k \in 1..Len(rows) :
        /\ ~StrLess(rows[k].finish, rows[k].start)
        /\ rows[k].duration_days >= 0
        /\ rows[k].duration_days = DayNumber(rows[k].finish) - DayNumber(rows[k].start)
    /\ \A k \in 1..Len(out) : ~StrLess(out[k].finish, out[k].start)
    /\ \A j \in 1..Len(join_log) :
        LET dl == PageDateLines(join_log[j].page)[join_log[j].dl]
        IN  ~StrLess(FinishOf(dl).iso, StartOf(dl).iso)

\* a date line with finish before start lay within reach of an id line, was
\* passed by the join loop and left no record, while other records exist
ReversedPairDropped ==
    /\ pc = "done"
    /\ rows # <<>>
    /\ \E p \in 1..Len(doc) : \E k \in 1..Len(PageDateLines(p)) :
        LET dl == PageDateLines(p)[k]
        IN  /\ InReach(p, dl)
            /\ IsCalendarDate(StartOf(dl).iso) /\ IsCalendarDate(FinishOf(dl).iso)
            /\ StrLess(FinishOf(dl).iso, StartOf(dl).iso)
            /\ ~HasJoin(p, k)

RECURSIVE TextLinesUpTo(_)
\* the text lines of pages 1..p, in document order
TextLinesUpTo(p) == IF p = 0 THEN <<>> ELSE TextLinesUpTo(p - 1) \o PageTextLines(p)
\* the group of the last heading on pages 1..p, "Unknown" when there is none
LastHeadingUpTo(p) ==
    LET lns == TextLinesUpTo(p)
        hs == {i \in 1..Len(lns) : HeadingOf(lns[i]) # "None"}
    IN  IF hs = {} THEN "Unknown" ELSE HeadingOf(lns[SetMax(hs)])
PageHasHeading(p) ==
    \E i \in 1..Len(PageTextLines(p)) : HeadingOf(PageTextLines(p)[i]) # "None"

\* C2: the major group is carried forward across pages and never rolled
\* back: every record carries the group of the most recent heading on its own
\* page or any earlier page, and "Unknown" only if there is no such heading.
MajorGroupCarried ==
    \A k \in 1..Len(rows) : rows[k].major_group = LastHeadingUpTo(rows[k].source_page)

\* a record from a page without a heading carries the group of an earlier page
GroupInherited ==
    \E k \in 1..Len(rows) :
        /\ rows[k].source_page > 1
        /\ ~PageHasHeading(rows[k].source_page)
        /\ rows[k].major_group # "Unknown"

\* one letter followed by two or three digits
MatchesPackagePattern(s) ==
    /\ Len(s) >= 3 /\ Len(s) <= 4
    /\ IsLetter(s[1])
    /\ \A i \in 2..Len(s) : IsDigit(s[i])

\* C3: a record whose identifier matches the package pattern carries its own
\* identifier and description as package_code and package_name; every other
\* record carries those of the most recent package-pattern record before it,
\* or none; a package_code that is present matches the package pattern.
PackageStamped ==
    \A k \in 1..Len(rows) :
        LET r == rows[k]
            prev == {j \in 1..(k - 1) : MatchesPackagePattern(rows[j].activity_id)}
        IN  /\ IF MatchesPackagePattern(r.activity_id)
               THEN r.package_code = r.activity_id /\ r.package_name = r.activity_name
               ELSE IF prev = {}
               THEN r.package_code = None /\ r.package_name = None
               ELSE /\ r.package_code = rows[SetMax(prev)].activity_id
                    /\ r.package_name = rows[SetMax(prev)].activity_name
            /\ r.package_code # None => MatchesPackagePattern(r.package_code)

\* a record of a later page inherits the package of a package record
PackageInherited ==
    \E j \in 1..Len(rows) : \E k \in (j + 1)..Len(rows) :
        /\ MatchesPackagePattern(rows[j].activity_id)
        /\ ~MatchesPackagePattern(rows[k].activity_id)
        /\ rows[k].source_page > rows[j].source_page
        /\ rows[k].package_code = rows[j].activity_id

\* C4 as stated: within one page no two date lines are joined to the same
\* id line, so an id line contributes at most one record per page.
OneRecordPerIdLine ==
    \A i \in 1..Len(join_log) : \A j \in (i + 1)..Len(join_log) :
        ~(join_log[i].page = join_log[j].page /\ join_log[i].id = join_log[j].id)

\* date line k of page p would pass every check of the join loop
Eligible(p, k) ==
    LET dl == PageDateLines(p)[k]
    IN  /\ InReach(p, dl)
        /\ IsCalendarDate(StartOf(dl).iso) /\ IsCalendarDate(FinishOf(dl).iso)
        /\ ~StrLess(FinishOf(dl).iso, StartOf(dl).iso)

\* every joined date line went to the id line whose ymid is closest to its
\* own ymid, the first such line in ymid order on a tie, and that distance
\* is at most Y_JOIN_MAX
JoinedAtNearest ==
    \A j \in 1..Len(join_log) :
        LET p == join_log[j].page
            ids == PageIdLines(p)
            y == PageDateLines(p)[join_log[j].dl].ymid
            d == Abs(ids[join_log[j].id].ymid - y)
        IN  /\ join_log[j].dist = d
            /\ d <= 2 * Y_JOIN_MAX
            /\ \A r \in 1..Len(ids) :
                /\ d <= Abs(ids[r].ymid - y)
                /\ d = Abs(ids[r].ymid - y) => join_log[j].id <= r
            /\ rows[j].activity_id = ids[join_log[j].id].activity_id
            /\ rows[j].source_page = p

\* C4 as amended: within one page every date line is joined on its own, to
\* at most one id line, the nearest within the distance bound, and yields at
\* most one record; a date line that has an id line in reach and valid,
\* ordered dates always yields its record, also when another date line was
\* joined to the same id line.
EachDateLineJoinsAlone ==
    /\ \A i \in 1..Len(join_log) : \A j \in (i + 1)..Len(join_log) :
        join_log[i].page = join_log[j].page => join_log[i].dl < join_log[j].dl
    /\ \A p \in 1..Len(doc) : \A k \in 1..Len(PageDateLines(p)) :
        (doc[p].words # <<>> /\ Processed(p, k) /\ Eligible(p, k)) => HasJoin(p, k)
    /\ JoinedAtNearest

\* two date lines of one page were joined to the same id line
CollisionJoined ==
    \E i \in 1..Len(join_log) : \E j \in (i + 1)..Len(join_log) :
        /\ join_log[i].page = join_log[j].page
        /\ join_log[i].id = join_log[j].id
        /\ join_log[i].dist # join_log[j].dist
        /\ rows[i].activity_id = rows[j].activity_id
        /\ rows[i].start # rows[j].start

\* the signed ymid differences of page p: for every date line with an id line
\* within the bound, the ymid of its nearest id line minus its own
PageDiffs(p) ==
    LET ids == PageIdLines(p)
        dls == PageDateLines(p)
        near(k) == nearest_id(ids, dls[k].ymid)
        ix == Indices({k \in 1..Len(dls) : near(k).best # 0 /\ near(k).best_d <= 2 * Y_JOIN_MAX})
    IN  Tuple([q \in 1..Len(ix) |-> ids[near(ix[q]).best].ymid - dls[ix[q]].ymid])
\* the median of an odd number of values
MedianOf(ds) ==
    LET h == Len(ds) \div 2
    IN  CHOOSE v \in {ds[i] : i \in 1..Len(ds)} :
            /\ Cardinality({i \in 1..Len(ds) : ds[i] < v}) <= h
            /\ Cardinality({i \in 1..Len(ds) : ds[i] > v}) <= h

\* C5 as stated: every date line is joined to the id line whose ymid is
\* closest to its own ymid plus the page's offset, the median of the page's
\* signed differences (stated for pages with an odd number of differences,
\* where the median is one of them).  The code learns no offset, and the
\* date line at 106 of PgOffset goes to the id line at 110 where the offset
\* of -4 sends it to the one at 100.
JoinedAtLearnedOffset ==
    \A j \in 1..Len(join_log) :
        LET p == join_log[j].page
            ids == PageIdLines(p)
            ds == PageDiffs(p)
            target == PageDateLines(p)[join_log[j].dl].ymid + MedianOf(ds)
        IN  Len(ds) % 2 = 1 =>
                \A r \in 1..Len(ids) :
                    Abs(ids[join_log[j].id].ymid - target) <= Abs(ids[r].ymid - target)

\* C6 as stated: date reconstruction rejects a date-shaped token that is no
\* calendar date, so every date of every date line is a calendar date.
OnlyCalendarDatesExtracted ==
    \A k \in 1..Len(date_lines) : \A i \in 1..Len(date_lines[k].dates) :
        IsCalendarDate(date_lines[k].dates[i].iso)

\* C6 as amended: extract_dates_from_tokens does not validate; a date-shaped
\* token that is no calendar date is rejected only when it is one of the last
\* two dates of a joined date line, and then the line yields no record: every
\* record's start and finish are calendar dates, the last two dates of its
\* date line, and every date line with an id line in reach and two valid,
\* ordered last dates yields its record whatever its earlier dates are.
InvalidDateDropsLine ==
    /\ \A j \in 1..Len(join_log) :
        LET dl == PageDateLines(join_log[j].page)[join_log[j].dl]
        IN  /\ IsCalendarDate(StartOf(dl).iso) /\ IsCalendarDate(FinishOf(dl).iso)
            /\ rows[j].start = StartOf(dl).iso
            /\ rows[j].finish = FinishOf(dl).iso
    /\ \A k \in 1..Len(rows) : IsCalendarDate(rows[k].start) /\ IsCalendarDate(rows[k].finish)
    /\ \A p \in 1..Len(doc) : \A k \in 1..Len(PageDateLines(p)) :
        LET dl == PageDateLines(p)[k]
        IN  (doc[p].words # <<>> /\ Processed(p, k) /\ InReach(p, dl)
             /\ ~StrLess(FinishOf(dl).iso, StartOf(dl).iso))
            => (HasJoin(p, k) <=> (IsCalendarDate(StartOf(dl).iso)
                                   /\ IsCalendarDate(FinishOf(dl).iso)))

\* on a finished page one date line with valid dates before an invalid last
\* date left no record, and another with an invalid date before its last two
\* left one
InvalidDateSeen ==
    \E p \in 1..Len(doc) :
        /\ p <= page_i
        /\ \E k \in 1..Len(PageDateLines(p)) :
            LET dl == PageDateLines(p)[k]
            IN  /\ Len(dl.dates) >= 3
                /\ InReach(p, dl)
                /\ IsCalendarDate(dl.dates[1].iso) /\ IsCalendarDate(dl.dates[2].iso)
                /\ ~IsCalendarDate(FinishOf(dl).iso)
                /\ ~HasJoin(p, k)
        /\ \E k \in 1..Len(PageDateLines(p)) :
            LET dl == PageDateLines(p)[k]
            IN  /\ ~IsCalendarDate(dl.dates[1].iso)
                /\ HasJoin(p, k)

KeyOf(r) == <<r.activity_id, r.start, r.finish>>

\* C7: the written records hold no two records with the same (activity_id,
\* start, finish); of the records assembled with one key the first assembled
\* is the one written; every key assembled is written.
FirstSeenWins ==
    pc = "done" =>
        /\ \A i \in 1..Len(out) : \A j \in (i + 1)..Len(out) : KeyOf(out[i]) # KeyOf(out[j])
        /\ \A k \in 1..Len(rows) : \E o \in 1..Len(out) :
            /\ KeyOf(out[o]) = KeyOf(rows[k])
            /\ out[o] = rows[SetMin({j \in 1..Len(rows) : KeyOf(rows[j]) = KeyOf(rows[k])})]
        /\ \A o \in 1..Len(out) : \E k \in 1..Len(rows) : rows[k] = out[o]

\* a key was assembled twice under different descriptions and written once
DuplicateDropped ==
    /\ pc = "done"
    /\ Len(out) < Len(rows)
    /\ \E i \in 1..Len(rows) : \E j \in (i + 1)..Len(rows) :
        /\ KeyOf(rows[i]) = KeyOf(rows[j])
        /\ rows[i].activity_name # rows[j].activity_name

\* a comes before b, or equals it, in string order
StrLeq(a, b) == a = b \/ StrLess(a, b)
\* a may stand before b in the written order
InOrder(a, b) ==
    IF a.package_code = None THEN
        /\ b.package_code = None
        /\ \/ StrLess(a.start, b.start)
           \/ a.start = b.start /\ StrLess(a.finish, b.finish)
           \/ a.start = b.start /\ a.finish = b.finish /\ StrLeq(a.activity_id, b.activity_id)
    ELSE
        \/ b.package_code = None
        \/ StrLess(a.package_code, b.package_code)
        \/ /\ a.package_code = b.package_code
           /\ \/ StrLess(a.start, b.start)
              \/ a.start = b.start /\ StrLess(a.finish, b.finish)
              \/ a.start = b.start /\ a.finish = b.finish
                 /\ StrLeq(a.activity_id, b.activity_id)

\* C8: the written records are in ascending order of (package_code, start,
\* finish, activity_id), the records without package_code after all others.
WrittenInOrder ==
    pc = "done" => \A i \in 1..Len(out) : \A j \in (i + 1)..Len(out) : InOrder(out[i], out[j])

\* records of two packages and one without package were assembled in another
\* order than the one written
SortMovedRecords ==
    /\ pc = "done"
    /\ Len(out) = Len(rows)
    /\ out # rows
    /\ \E i \in 1..Len(out) : \E j \in (i + 1)..Len(out) : \E k \in (j + 1)..Len(out) :
        /\ out[i].package_code # None
        /\ out[j].package_code # None
        /\ out[i].package_code # out[j].package_code
        /\ out[k].package_code = None
    /\ rows[1].package_code = None

\* C9 as stated: a record whose description matches no work-type rule is
\* labelled "Milestone" when its identifier starts with MS and "Other"
\* otherwise.
LabelFallsBackOnIdentifier ==
    \A k \in 1..Len(rows) :
        (\A r \in 1..Len(WORKTYPE_RULES) :
            ~RuleSearch(WORKTYPE_RULES[r].words, Lower(rows[k].activity_name)))
        => rows[k].work_type =
               (IF StartsWith(rows[k].activity_id, <<77, 83>> (* MS *)) THEN "Milestone" ELSE "Other")

\* C10 as stated: normalize_token is idempotent.
NormalizeIdempotent == npc = "twice" => norm2 = norm1
====
